---- MODULE Spec2Model ----
(***************************************************************************)
(* A model of the qs query-string library (github.com/dmji/qs): the       *)
(* converter factories and the caches in front of them, the registration  *)
(* hooks, the tag parser and the unmarshal path from url.Values into      *)
(* records.                                                                *)
(*                                                                         *)
(* Go objects whose pointer identity the program can observe (converters  *)
(* and errors returned by the factories) carry an "id": the address the   *)
(* allocation gave them.  Two objects are the same object iff they have   *)
(* the same id; they are equivalent iff they have the same "desc".        *)
(***************************************************************************)
EXTENDS Integers, Sequences, FiniteSets, TLC

\* Number of goroutines resolving converters concurrently.
NProcs == 2
\* Longest value list under one key of a url.Values given to Unmarshal.
MaxListLen == 1
\* Longest slice a target object may hold (caps keep-old appends).
MaxSliceLen == 2
\* Number of registrations a run may perform.
MaxRegs == 2
\* Longest list of strings given for a slice in the runs on slices.
MaxInputLen == 3
MaxTagLen == 3

Procs == 1..NProcs

(***************************************************************************)
(* The types of the modelled program (reflect.Type values).               *)
(***************************************************************************)
Types ==
    {"int", "Celsius", "Time", "Own", "chan", "*int", "[]int",
     "Inner", "Mid", "*Mid", "Outer", "Two", "NilRec", "OptRec",
     "KeepRec", "OmitRec", "SkipRec", "Late", "Shadow", "Clash", "SliceRec",
     "map[string]int", "map[string]chan", "map[int]int", "map[string][]int",
     "Params", "Bag",
     "*map[string]int", "*map[string]chan", "*map[int]int",
     "*Inner", "**Mid", "**int",
     "string", "bool", "uint", "Scalars", "DupRec"}

\* reflect.Type.Kind()
Kind(t) ==
    CASE t \in {"int", "Celsius"} -> "Int"
      [] t = "chan" -> "Chan"
      [] t = "string" -> "String"
      [] t = "bool" -> "Bool"
      [] t = "uint" -> "Uint"
      [] t \in {"*int", "*Mid", "*Inner", "**Mid", "**int",
                 "*map[string]int", "*map[string]chan", "*map[int]int",
                 "*Node", "*Ring", "*Knot"} -> "Ptr"
      [] t = "[]int" -> "Slice"
      [] t \in {"map[string]int", "map[string]chan", "map[int]int",
                 "map[string][]int", "Params"} -> "Map"
      [] OTHER -> "Struct"

\* reflect.Type.Elem()
Elem(t) ==
    CASE t = "*int" -> "int"
      [] t = "[]int" -> "int"
      [] t = "*Mid" -> "Mid"
      [] t = "*Inner" -> "Inner"
      [] t = "**Mid" -> "*Mid"
      [] t = "**int" -> "*int"
      [] t = "*map[string]int" -> "map[string]int"
      [] t = "*map[string]chan" -> "map[string]chan"
      [] t = "*map[int]int" -> "map[int]int"
      [] t \in {"map[string]int", "map[int]int"} -> "int"
      [] t = "map[string]chan" -> "chan"
      [] t \in {"map[string][]int", "Params"} -> "[]int"
      [] t = "*Node" -> "Node"
      [] t = "*Ring" -> "Ring"
      [] t = "*Knot" -> "Knot"

\* reflect.Type.Key() of a map type
Key(t) == IF t = "map[int]int" THEN "int" ELSE "string"

\* reflect.PointerTo(t)
PointerTo(t) ==
    CASE t = "int" -> "*int"
      [] t = "Mid" -> "*Mid"
      [] t = "Inner" -> "*Inner"
      [] t = "*Mid" -> "**Mid"
      [] t = "*int" -> "**int"
      [] t = "map[string]int" -> "*map[string]int"
      [] t = "map[string]chan" -> "*map[string]chan"
      [] t = "map[int]int" -> "*map[int]int"

\* reflect.PointerTo(t).Implements(unmarshalQSInterfaceType)
ImplementsUnmarshalQS(t) == t = "Own"

\* t.Implements(marshalQSInterfaceType)
ImplementsMarshalQS(t) == t = "Own"

\* A reflect.StructField: Go name, type, the qs tag split at its commas,
\* whether the field is embedded, whether it is exported (PkgPath == "").
Field(name, type, tag) ==
    [Name |-> name, Type |-> type, Tag |-> tag, Anonymous |-> FALSE, Exported |-> TRUE]

\* A field of a lower-case name: PkgPath is not empty.
Unexported(name, type, tag) ==
    [Name |-> name, Type |-> type, Tag |-> tag, Anonymous |-> FALSE, Exported |-> FALSE]

Embedded(name, type) ==
    [Name |-> name, Type |-> type, Tag |-> <<"">>, Anonymous |-> TRUE, Exported |-> TRUE]

\* t.Field(i) for i in 1..t.NumField()
StructFields(t) ==
    CASE t = "Inner" -> << Field("N", "int", <<"n", "req">>) >>
      [] t = "Mid" -> << Embedded("Inner", "Inner") >>
      [] t = "Outer" -> << Field("A", "int", <<"a">>), Embedded("Mid", "*Mid") >>
      [] t = "Two" -> << Field("A", "int", <<"a", "req">>),
                         Field("B", "int", <<"b", "req">>) >>
      [] t = "NilRec" -> << Field("S", "[]int", <<"s", "nil">>),
                            Field("P", "*int", <<"p", "nil">>) >>
      [] t = "OptRec" -> << Field("Q", "*int", <<"q", "opt">>),
                            Field("L", "[]int", <<"">>) >>
      [] t = "KeepRec" -> << Field("I", "int", <<"i", "keepempty">>),
                             Field("P", "*int", <<"p", "keepempty">>),
                             Field("S", "[]int", <<"s", "keepempty">>) >>
      [] t = "OmitRec" -> << Field("I", "int", <<"i", "omitempty">>),
                             Field("P", "*int", <<"p", "omitempty">>),
                             Field("S", "[]int", <<"s", "omitempty">>) >>
      [] t = "Late" -> << Field("N", "int", <<"n">>), Field("M", "int", <<"m">>) >>
      [] t = "Shadow" -> << Field("N", "int", <<"n">>), Embedded("Inner", "Inner") >>
      [] t = "Clash" -> << Field("N", "int", <<"n">>), Embedded("Inner", "Inner"),
                           Embedded("Late", "Late") >>
      [] t = "Scalars" -> << Field("S", "string", <<"s">>), Field("B", "bool", <<"b">>),
                             Field("I", "int", <<"i">>), Field("U", "uint", <<"u">>) >>
      [] t = "DupRec" -> << Field("A", "int", <<"a">>), Field("B", "int", <<"a">>) >>
      [] t = "SliceRec" -> << Field("L", "[]int", <<"l">>) >>
      [] t = "Node" -> << Field("N", "int", <<"n">>), Embedded("Node", "*Node") >>
      [] t = "Bag" -> << Field("I", "int", <<"i">>), Embedded("Params", "Params") >>
      [] t = "Ring" -> << Embedded("Knot", "*Knot") >>
      [] t = "Knot" -> << Embedded("Ring", "*Ring") >>
      [] t = "SkipRec" -> << Field("Dash", "int", <<"-">>),
                             Unexported("hidden", "int", <<"">>),
                             Field("V", "int", <<"v">>) >>
      [] OTHER -> << >>

(***************************************************************************)
(* Tag options and the tag parser.                                         *)
(***************************************************************************)
\* An UnmarshalPresenceFromString that does not know req.
presenceWithoutReq(option) ==
    CASE option = "opt" -> "Opt"
      [] option = "nil" -> "Nil"
      [] OTHER -> "invalid"

UnmarshalPresenceFromString(option) ==
    CASE option = "opt" -> "Opt"
      [] option = "nil" -> "Nil"
      [] option = "req" -> "Req"
      [] OTHER -> "invalid"

MarshalPresenceFromString(option) ==
    CASE option = "keepempty" -> "KeepEmpty"
      [] option = "omitempty" -> "OmitEmpty"
      [] OTHER -> "invalid"

NewUndefinedUnmarshalTagOptions ==
    [Presence |-> "Unspecified", SliceValues |-> "Unspecified",
     SliceUnexpectedValue |-> "Unspecified"]

NewUndefinedMarshalTagOptions == [Presence |-> "Unspecified"]

NewUndefinedCommonTagOptions == [SliceSeparator |-> "Unspecified"]

\* UnmarshalTagOptions.InitDefaults
InitDefaultsU(o) ==
    [Presence |-> IF o.Presence = "Unspecified" THEN "Opt" ELSE o.Presence,
     SliceValues |->
        IF o.SliceValues = "Unspecified" THEN "OverrideOld" ELSE o.SliceValues,
     SliceUnexpectedValue |->
        IF o.SliceUnexpectedValue = "Unspecified" THEN "BreakWithError"
        ELSE o.SliceUnexpectedValue]

\* MarshalTagOptions.InitDefaults
InitDefaultsM(o) ==
    [Presence |-> IF o.Presence = "Unspecified" THEN "KeepEmpty" ELSE o.Presence]

\* CommonTagOptions.InitDefaults
InitDefaultsC(o) ==
    [SliceSeparator |->
        IF o.SliceSeparator = "Unspecified" THEN "None" ELSE o.SliceSeparator]

\* UnmarshalTagOptions.ApplyDefaults
ApplyDefaultsU(o, d) ==
    [Presence |-> IF o.Presence = "Unspecified" THEN d.Presence ELSE o.Presence,
     SliceValues |->
        IF o.SliceValues = "Unspecified" THEN d.SliceValues ELSE o.SliceValues,
     SliceUnexpectedValue |->
        IF o.SliceUnexpectedValue = "Unspecified" THEN d.SliceUnexpectedValue
        ELSE o.SliceUnexpectedValue]

\* CommonTagOptions.ApplyDefaults
ApplyDefaultsC(o, d) ==
    [SliceSeparator |->
        IF o.SliceSeparator = "Unspecified" THEN d.SliceSeparator
        ELSE o.SliceSeparator]

\* UnmarshalSliceValuesFromString, UnmarshalSliceUnexpectedValueFromString
\* and OptionSliceSeparatorFromString: the lower-case names of the values.
UnmarshalSliceValuesFromString(option) ==
    CASE option = "keepold" -> "KeepOld"
      [] option = "overrideold" -> "OverrideOld"
      [] OTHER -> "invalid"

UnmarshalSliceUnexpectedValueFromString(option) ==
    CASE option = "skip" -> "Skip"
      [] option = "breakwitherror" -> "BreakWithError"
      [] OTHER -> "invalid"

OptionSliceSeparatorFromString(option) ==
    CASE option = "none" -> "None"
      [] option = "comma" -> "Comma"
      [] option = "semicolon" -> "Semicolon"
      [] option = "space" -> "Space"
      [] OTHER -> "invalid"

\* return nil, err: the tag is dropped, why tells the error.
tagError(tag, why) == [tag EXCEPT !.err = TRUE, !.why = why]

\* CommonTagOptions.ParseOption
commonParseOption(option, tag) ==
    IF OptionSliceSeparatorFromString(option) = "invalid" THEN tag
    ELSE IF tag.CommonOpts.SliceSeparator # "Unspecified" THEN tagError(tag, "not unique")
    ELSE [tag EXCEPT !.CommonOpts.SliceSeparator = OptionSliceSeparatorFromString(option)]

\* UnmarshalTagOptions.ParseOption: the presence
unmarshalPresenceOption(option, tag) ==
    IF tag.err \/ UnmarshalPresenceFromString(option) = "invalid" THEN tag
    ELSE IF tag.UnmarshalOpts.Presence # "Unspecified" THEN tagError(tag, "not unique")
    ELSE [tag EXCEPT !.UnmarshalOpts.Presence = UnmarshalPresenceFromString(option)]

\* UnmarshalTagOptions.ParseOption: the slice values
unmarshalSliceValuesOption(option, tag) ==
    IF tag.err \/ UnmarshalSliceValuesFromString(option) = "invalid" THEN tag
    ELSE IF tag.UnmarshalOpts.SliceValues # "Unspecified" THEN tagError(tag, "not unique")
    ELSE [tag EXCEPT !.UnmarshalOpts.SliceValues = UnmarshalSliceValuesFromString(option)]

\* UnmarshalTagOptions.ParseOption: the slice unexpected value
unmarshalUnexpectedOption(option, tag) ==
    IF tag.err \/ UnmarshalSliceUnexpectedValueFromString(option) = "invalid" THEN tag
    ELSE IF tag.UnmarshalOpts.SliceUnexpectedValue # "Unspecified"
    THEN tagError(tag, "not unique")
    ELSE [tag EXCEPT !.UnmarshalOpts.SliceUnexpectedValue =
                        UnmarshalSliceUnexpectedValueFromString(option)]

\* The marshal presence of parseFieldTag
marshalPresenceOption(option, tag) ==
    IF tag.err \/ MarshalPresenceFromString(option) = "invalid" THEN tag
    ELSE IF tag.MarshalPresence # "Unspecified" THEN tagError(tag, "not unique")
    ELSE [tag EXCEPT !.MarshalPresence = MarshalPresenceFromString(option)]

\* "invalid option in field tag" for an option that none of the parsers
\* has found.
invalidOption(option, tag) ==
    IF tag.err THEN tag
    ELSE IF /\ OptionSliceSeparatorFromString(option) = "invalid"
            /\ UnmarshalPresenceFromString(option) = "invalid"
            /\ UnmarshalSliceValuesFromString(option) = "invalid"
            /\ UnmarshalSliceUnexpectedValueFromString(option) = "invalid"
            /\ MarshalPresenceFromString(option) = "invalid"
    THEN tagError(tag, "invalid option")
    ELSE tag

\* The body of the loop of parseFieldTag for one option.
parseOption(option, tag) ==
    invalidOption(option,
        marshalPresenceOption(option,
            unmarshalUnexpectedOption(option,
                unmarshalSliceValuesOption(option,
                    unmarshalPresenceOption(option,
                        commonParseOption(option, tag))))))

\* The loop of parseFieldTag over the options after the name; it ends at
\* the first error.
RECURSIVE parseOptions(_, _, _)
parseOptions(options, i, tag) ==
    IF i > Len(options) \/ tag.err THEN tag
    ELSE parseOptions(options, i + 1, parseOption(options[i], tag))

\* The ParsedTagInfo parseFieldTag starts from.
undefinedTag(name) ==
    [nil |-> FALSE, err |-> FALSE, why |-> "", Name |-> name,
     MarshalPresence |-> "Unspecified",
     UnmarshalOpts |-> NewUndefinedUnmarshalTagOptions,
     CommonOpts |-> NewUndefinedCommonTagOptions]

\* An end of parseFieldTag that leaves the tag as the options made it.
withoutTagDefaults(tag, dM, dU, dC) == tag

\* The end of parseFieldTag: what the tag leaves unspecified is taken from
\* the defaults.
applyTagDefaults(tag, dM, dU, dC) ==
    IF tag.err THEN tag
    ELSE [tag EXCEPT
            !.MarshalPresence = IF @ = "Unspecified" THEN dM.Presence ELSE @,
            !.UnmarshalOpts = ApplyDefaultsU(@, dU),
            !.CommonOpts = ApplyDefaultsC(@, dC)]

\* A parseFieldTag that does not look for empty options before the loop.
parseWithoutCommaCheck(nameAndOptions, dM, dU, dC) ==
    applyTagDefaults(
        parseOptions(Tail(nameAndOptions), 1, undefinedTag(nameAndOptions[1])),
        dM, dU, dC)

\* parseFieldTag: nameAndOptions is strings.Split(tagStr.Get("qs"), ",").
parseFieldTag(nameAndOptions, dM, dU, dC) ==
    applyTagDefaults(
        IF \E i \in 2..Len(nameAndOptions) : nameAndOptions[i] = ""
        THEN tagError(undefinedTag(nameAndOptions[1]), "surplus comma")
        ELSE parseOptions(Tail(nameAndOptions), 1, undefinedTag(nameAndOptions[1])),
        dM, dU, dC)

\* snakeCase on the field names of the modelled records: a name with one
\* upper-case rune, the first, is lower-cased and gets no underscore.
snakeCase(s) ==
    CASE s = "N" -> "n" [] s = "A" -> "a" [] s = "B" -> "b" [] s = "P" -> "p"
      [] s = "S" -> "s" [] s = "Q" -> "q" [] s = "L" -> "l"
      [] s = "Inner" -> "inner" [] s = "Mid" -> "mid"
      [] s = "I" -> "i" [] s = "V" -> "v" [] s = "Dash" -> "dash"
      [] s = "hidden" -> "hidden" [] s = "M" -> "m" [] s = "Late" -> "late"
      [] s = "U" -> "u" [] s = "Params" -> "params"

NilTag == [nil |-> TRUE, err |-> FALSE]

\* The end of getStructFieldInfo, on the parsed tag.
namedTag(field, tag) ==
    IF tag.err THEN tag
    ELSE IF tag.Name = "-" THEN NilTag
    ELSE IF tag.Name = "" THEN [tag EXCEPT !.Name = snakeCase(field.Name)]
    ELSE tag

\* A getStructFieldInfo that does not skip the unexported fields.
taggedFieldInfo(field, dM, dU, dC) ==
    namedTag(field, parseFieldTag(field.Tag, dM, dU, dC))

\* getStructFieldInfo: NilTag for a field to skip, a tag with err set for
\* an invalid tag, the parsed tag otherwise.
getStructFieldInfo(field, dM, dU, dC) ==
    IF ~field.Exported /\ ~field.Anonymous THEN NilTag
    ELSE namedTag(field, parseFieldTag(field.Tag, dM, dU, dC))

(***************************************************************************)
(* The state.                                                              *)
(*   cache       the four sync.Map caches: "VU" valuesUnmarshalerCache,   *)
(*               "U" unmarshalerCache, "VM" valuesMarshalerCache and "M"  *)
(*               marshalerCache, each a map from type to stored item      *)
(*   calls       how often each wrapped factory was invoked for each type *)
(*   reg         the override maps of the wrapped factories               *)
(*   nreg        number of registrations performed                        *)
(*   tagDefaults the pipeline's TagOptionsDefaults after InitDefaults    *)
(*   procs       the goroutines resolving converters: position and locals *)
(*   hist        what resolutions have returned so far (history)          *)
(*   obj         the object Unmarshal is called on: its type and value    *)
(*   last        the last call made on the library and its outcome        *)
(***************************************************************************)
VARIABLES cache, calls, reg, nreg, tagDefaults, procs, hist, obj, last

vars == <<cache, calls, reg, nreg, tagDefaults, procs, hist, obj, last>>

Caches == {"VU", "U", "VM", "M"}

Kinds == {"Int", "Chan", "Ptr", "Slice", "Struct", "Map", "String", "Bool", "Uint"}

\* An item of a cache, or the outcome of a resolution: a converter, an
\* error, or nothing.
NoEntry == [kind |-> "none"]

Conv(desc, id) == [kind |-> "conv", desc |-> desc, id |-> id]

Err(desc, id) == [kind |-> "err", desc |-> desc, id |-> id]

\* The functional state a resolution threads through its nested calls.
Ret(res, st) == [res |-> res, st |-> st]

\* The address of the object allocated by the running invocation of the
\* factory behind cache c for type t.
Fresh(c, t, st) == <<c, t, st.calls[c][t]>>

\* A converter object created once, by the constructor of a factory.
Builtin(fn) == Conv([k |-> "prim", fn |-> fn], <<"builtin", fn, 0>>)

\* A Go map: nil, or a map from keys to items.
NilMap(keys) == [nil |-> TRUE, m |-> [x \in keys |-> NoEntry]]

EmptyMap(keys) == [nil |-> FALSE, m |-> [x \in keys |-> NoEntry]]

\* v, ok := m[key]  (reading a nil map finds nothing)
Has(m, key) == ~m.nil /\ m.m[key].kind # "none"

\* newUnmarshalerFactory: types, kindSubRegistries and kinds are filled in,
\* the three override maps are left nil.
newUnmarshalerFactory ==
    [types |-> [t \in {"Time"} |-> Builtin("unmarshalTime")],
     kindSubRegistries |-> {"Ptr", "Slice"},
     kinds |-> [k \in {"String", "Bool", "Int", "Uint"} |->
                    Builtin(CASE k = "String" -> "unmarshalString"
                              [] k = "Bool" -> "unmarshalBool"
                              [] k = "Int" -> "unmarshalInt"
                              [] k = "Uint" -> "unmarshalUint")],
     typesOverriden |-> NilMap(Types),
     kindSubRegistriesOverriden |-> NilMap(Kinds),
     kindsOverriden |-> NilMap(Kinds)]

\* newMarshalerFactory: every map is made.
newMarshalerFactory ==
    [types |-> [t \in {"Time"} |-> Builtin("marshalTime")],
     kindSubRegistries |-> {"Ptr", "Slice"},
     kinds |-> [k \in {"String", "Bool", "Int", "Uint"} |->
                    Builtin(CASE k = "String" -> "marshalString"
                              [] k = "Bool" -> "marshalBool"
                              [] k = "Int" -> "marshalInt"
                              [] k = "Uint" -> "marshalUint")],
     typesOverriden |-> EmptyMap(Types),
     kindSubRegistriesOverriden |-> EmptyMap(Kinds),
     kindsOverriden |-> EmptyMap(Kinds)]

\* newValuesUnmarshalerFactory: kindSubRegistriesOverriden is left nil.
newValuesUnmarshalerFactory ==
    [kindSubRegistries |-> {"Ptr", "Struct", "Map"},
     kindSubRegistriesOverriden |-> NilMap(Kinds)]

\* newValuesMarshalerFactory: kindSubRegistriesOverriden is left nil.
newValuesMarshalerFactory ==
    [kindSubRegistries |-> {"Ptr", "Struct", "Map"},
     kindSubRegistriesOverriden |-> NilMap(Kinds)]

\* A factory function given to RegisterSubFactory, called for type t: a
\* deterministic function of the type that returns a new converter.
subFactoryCall(c, f, t, st) ==
    Ret(Conv([k |-> "sub", fn |-> f.fn, Type |-> t], Fresh(c, t, st)), st)

RECURSIVE cacher(_, _, _)

\* A converter for a pointer, slice or record type t built by the factory
\* behind cache c around the converter r.res of its element type; the
\* element's error is passed on as it is.
around(c, t, k, r) ==
    IF r.res.kind = "err" THEN r
    ELSE Ret(Conv([k |-> k, Type |-> t, Elem |-> r.res.desc], Fresh(c, t, r.st)), r.st)

\* return nil, &UnhandledTypeError{Type: t}
unhandled(c, t, st) ==
    Ret(Err([k |-> "UnhandledTypeError", Type |-> t], Fresh(c, t, st)), st)

(***************************************************************************)
(* Entry-level unmarshaler factory.                                        *)
(***************************************************************************)
newPtrUnmarshaler(t, st) == around("U", t, "ptr", cacher("U", Elem(t), st))

newSliceUnmarshaler(t, st) == around("U", t, "slice", cacher("U", Elem(t), st))

\* unmarshalerFactory.Unmarshaler
unmarshalerFactory(t, st) ==
    IF t \in DOMAIN reg.U.types THEN Ret(reg.U.types[t], st)
    ELSE IF ImplementsUnmarshalQS(t)
    THEN Ret(Conv([k |-> "unmarshalWithUnmarshalQS"], Fresh("U", t, st)), st)
    ELSE IF Kind(t) \in reg.U.kindSubRegistries
    THEN (IF Kind(t) = "Ptr" THEN newPtrUnmarshaler(t, st)
          ELSE newSliceUnmarshaler(t, st))
    ELSE IF Kind(t) \in DOMAIN reg.U.kinds THEN Ret(reg.U.kinds[Kind(t)], st)
    ELSE unhandled("U", t, st)

(***************************************************************************)
(* Entry-level marshaler factory.                                          *)
(***************************************************************************)
newPtrMarshaler(t, st) == around("M", t, "ptr", cacher("M", Elem(t), st))

newArrayAndSliceMarshaler(t, st) == around("M", t, "slice", cacher("M", Elem(t), st))

\* A marshalerFactory.Marshaler that never looks into kindsOverriden.
marshalerFactoryWithoutKindOverrides(t, st) ==
    IF Has(reg.M.typesOverriden, t) THEN Ret(reg.M.typesOverriden.m[t], st)
    ELSE IF t \in DOMAIN reg.M.types THEN Ret(reg.M.types[t], st)
    ELSE IF ImplementsMarshalQS(t)
    THEN Ret(Conv([k |-> "marshalWithMarshalQS"], Fresh("M", t, st)), st)
    ELSE IF Has(reg.M.kindSubRegistriesOverriden, Kind(t))
    THEN subFactoryCall("M", reg.M.kindSubRegistriesOverriden.m[Kind(t)], t, st)
    ELSE IF Kind(t) \in reg.M.kindSubRegistries
    THEN (IF Kind(t) = "Ptr" THEN newPtrMarshaler(t, st)
          ELSE newArrayAndSliceMarshaler(t, st))
    ELSE IF Kind(t) \in DOMAIN reg.M.kinds THEN Ret(reg.M.kinds[Kind(t)], st)
    ELSE unhandled("M", t, st)

\* marshalerFactory.Marshaler
marshalerFactory(t, st) ==
    IF Has(reg.M.typesOverriden, t) THEN Ret(reg.M.typesOverriden.m[t], st)
    ELSE IF t \in DOMAIN reg.M.types THEN Ret(reg.M.types[t], st)
    ELSE IF ImplementsMarshalQS(t)
    THEN Ret(Conv([k |-> "marshalWithMarshalQS"], Fresh("M", t, st)), st)
    ELSE IF Has(reg.M.kindSubRegistriesOverriden, Kind(t))
    THEN subFactoryCall("M", reg.M.kindSubRegistriesOverriden.m[Kind(t)], t, st)
    ELSE IF Kind(t) \in reg.M.kindSubRegistries
    THEN (IF Kind(t) = "Ptr" THEN newPtrMarshaler(t, st)
          ELSE newArrayAndSliceMarshaler(t, st))
    ELSE IF Has(reg.M.kindsOverriden, Kind(t))
    THEN Ret(reg.M.kindsOverriden.m[Kind(t)], st)
    ELSE IF Kind(t) \in DOMAIN reg.M.kinds THEN Ret(reg.M.kinds[Kind(t)], st)
    ELSE unhandled("M", t, st)

(***************************************************************************)
(* Values-level factories: records and pointers to records.  The record   *)
(* converters of the two directions are built by the same steps; d is     *)
(* "U" for newStructUnmarshaler and "M" for newStructMarshaler.           *)
(***************************************************************************)
NoError == [k |-> "none"]

\* The cache of the values-level factory of direction d.
ValuesCache(d) == IF d = "U" THEN "VU" ELSE "VM"

\* What newFieldUnmarshaler and newFieldMarshaler return: a values
\* converter for an embedded record, or a field converter, or neither for
\* a skipped field, or an error.
FieldResult(vum, fum, err, st) == [vum |-> vum, fum |-> fum, err |-> err, st |-> st]

NoField == [nil |-> TRUE]

\* The field converter around the entry converter r.res of the field type.
entryField(tag, r) ==
    IF r.res.kind = "err" THEN FieldResult(NoEntry, NoField, r.res.desc, r.st)
    ELSE FieldResult(NoEntry,
                     [nil |-> FALSE, Conv |-> r.res.desc, Tag |-> tag],
                     NoError, r.st)

\* An anonymous field: embedded when the values-level factory has a
\* converter for its type, an ordinary field otherwise.
embeddedField(d, sf, tag, rv) ==
    IF rv.res.kind = "conv" THEN FieldResult(rv.res, NoField, NoError, rv.st)
    ELSE entryField(tag, cacher(d, sf.Type, rv.st))

\* newFieldUnmarshaler and newFieldMarshaler after getStructFieldInfo.
fieldConverter(d, sf, tag, st) ==
    IF tag.err THEN FieldResult(NoEntry, NoField, [k |-> "invalid tag"], st)
    ELSE IF tag.nil THEN FieldResult(NoEntry, NoField, NoError, st)
    ELSE IF sf.Anonymous
    THEN embeddedField(d, sf, tag, cacher(ValuesCache(d), sf.Type, st))
    ELSE entryField(tag, cacher(d, sf.Type, st))

newFieldUnmarshaler(sf, st) ==
    fieldConverter("U", sf,
        getStructFieldInfo(sf, NewUndefinedMarshalTagOptions,
                           tagDefaults.U, tagDefaults.C), st)

newFieldMarshaler(sf, st) ==
    fieldConverter("M", sf,
        getStructFieldInfo(sf, tagDefaults.M,
                           NewUndefinedUnmarshalTagOptions, tagDefaults.C), st)

RECURSIVE structFields(_, _, _, _)

\* One turn of the loop of newStructUnmarshaler and newStructMarshaler: f
\* is what the field constructor returned for field i.
addField(d, t, i, acc, f) ==
    IF f.err.k # "none"
    THEN [acc EXCEPT
            !.err = [k |-> "field", Type |-> t, Field |-> StructFields(t)[i].Name,
                     cause |-> f.err],
            !.st = f.st]
    ELSE structFields(d, t, i + 1,
            [acc EXCEPT
               !.s.EmbeddedFields =
                  IF f.vum.kind = "conv"
                  THEN Append(@, [FieldIndex |-> i, Conv |-> f.vum.desc])
                  ELSE @,
               !.s.Fields =
                  IF ~f.fum.nil
                  THEN Append(@, [FieldIndex |-> i, Conv |-> f.fum.Conv,
                                  Tag |-> f.fum.Tag])
                  ELSE @,
               !.st = f.st])

\* The loop over the fields from index i on.
structFields(d, t, i, acc) ==
    IF i > Len(StructFields(t)) THEN acc
    ELSE addField(d, t, i, acc,
                  IF d = "U" THEN newFieldUnmarshaler(StructFields(t)[i], acc.st)
                  ELSE newFieldMarshaler(StructFields(t)[i], acc.st))

\* The record converter, or the error of the first field that has none.
structResult(c, t, r) ==
    IF r.err.k # "none" THEN Ret(Err(r.err, Fresh(c, t, r.st)), r.st)
    ELSE Ret(Conv(r.s, Fresh(c, t, r.st)), r.st)

EmptyStruct(t, st) ==
    [s |-> [k |-> "struct", Type |-> t, EmbeddedFields |-> << >>, Fields |-> << >>],
     err |-> NoError, st |-> st]

newStructUnmarshaler(t, st) ==
    structResult("VU", t, structFields("U", t, 1, EmptyStruct(t, st)))

newStructMarshaler(t, st) ==
    structResult("VM", t, structFields("M", t, 1, EmptyStruct(t, st)))

newPtrValuesUnmarshaler(t, st) == around("VU", t, "ptr", cacher("VU", Elem(t), st))

newPtrValuesMarshaler(t, st) == around("VM", t, "ptr", cacher("VM", Elem(t), st))

\* The end of newMapUnmarshaler and newMapMarshaler: a map converter around
\* the converter r.res of the element type, or a new error that tells of
\* the element's.
mapAround(c, t, r) ==
    IF r.res.kind = "err"
    THEN Ret(Err([k |-> "MapValueTypeError", Type |-> t, Elem |-> r.res.desc],
                 Fresh(c, t, r.st)), r.st)
    ELSE Ret(Conv([k |-> "map", Type |-> t, Elem |-> r.res.desc], Fresh(c, t, r.st)), r.st)

\* "map key type is expected to be string"
mapKeyError(c, t, st) == Ret(Err([k |-> "MapKeyTypeError", Type |-> t], Fresh(c, t, st)), st)

\* A values factory for maps that handles no map type.
mapUnhandled(t, st) == unhandled("VU", t, st)

newMapUnmarshaler(t, st) ==
    IF Key(t) # "string" THEN mapKeyError("VU", t, st)
    ELSE mapAround("VU", t, cacher("U", Elem(t), st))

newMapMarshaler(t, st) ==
    IF Key(t) # "string" THEN mapKeyError("VM", t, st)
    ELSE mapAround("VM", t, cacher("M", Elem(t), st))

\* valuesUnmarshalerFactory.ValuesUnmarshaler
valuesUnmarshalerFactory(t, st) ==
    IF Has(reg.VU.kindSubRegistriesOverriden, Kind(t))
    THEN subFactoryCall("VU", reg.VU.kindSubRegistriesOverriden.m[Kind(t)], t, st)
    ELSE IF Kind(t) \in reg.VU.kindSubRegistries
    THEN (IF Kind(t) = "Ptr" THEN newPtrValuesUnmarshaler(t, st)
          ELSE IF Kind(t) = "Map" THEN newMapUnmarshaler(t, st)
          ELSE newStructUnmarshaler(t, st))
    ELSE unhandled("VU", t, st)

\* valuesMarshalerFactory.ValuesMarshaler
valuesMarshalerFactory(t, st) ==
    IF Has(reg.VM.kindSubRegistriesOverriden, Kind(t))
    THEN subFactoryCall("VM", reg.VM.kindSubRegistriesOverriden.m[Kind(t)], t, st)
    ELSE IF Kind(t) \in reg.VM.kindSubRegistries
    THEN (IF Kind(t) = "Ptr" THEN newPtrValuesMarshaler(t, st)
          ELSE IF Kind(t) = "Map" THEN newMapMarshaler(t, st)
          ELSE newStructMarshaler(t, st))
    ELSE unhandled("VM", t, st)

(***************************************************************************)
(* The caches.                                                             *)
(***************************************************************************)
\* The factory a cache wraps: o.wrapped.ValuesUnmarshaler and the like.
wrapped(c, t, st) ==
    CASE c = "VU" -> valuesUnmarshalerFactory(t, st)
      [] c = "U" -> unmarshalerFactory(t, st)
      [] c = "VM" -> valuesMarshalerFactory(t, st)
      [] c = "M" -> marshalerFactory(t, st)

\* st with one more invocation of the factory behind c counted for t.
Invoked(c, t, st) == [st EXCEPT !.calls[c][t] = @ + 1]

\* A Load that never finds an item.
loadNothing(c, t, st) == NoEntry

\* cache.Load(t): the stored item, NoEntry when there is none.
Load(c, t, st) == st.cache[c][t]

\* A Store that keeps converters and drops errors.
storeConvertersOnly(c, t, item, st) ==
    IF item.kind = "err" THEN st ELSE [st EXCEPT !.cache[c][t] = item]

\* A Store that keeps the first item stored for a type and drops every
\* later one only if it is a converter.
storeErrorsOverConverters(c, t, item, st) ==
    IF item.kind = "conv" /\ st.calls[c][t] > 1
    THEN [st EXCEPT !.cache[c][t] = Err([k |-> "stale"], item.id)]
    ELSE [st EXCEPT !.cache[c][t] = item]

\* cache.Store(t, item)
Store(c, t, item, st) == [st EXCEPT !.cache[c][t] = item]

\* The end of cacher after a miss: r is what the wrapped factory returned.
storeAndReturn(c, t, r) == Ret(r.res, Store(c, t, r.res, r.st))

\* A cacher that never looks into the cache.
cacherWithoutLoad(c, t, st) == storeAndReturn(c, t, wrapped(c, t, Invoked(c, t, st)))

\* cacher, run without interruption: Load; on a miss the wrapped factory,
\* then Store of its converter or of its error.
cacher(c, t, st) ==
    IF Load(c, t, st).kind # "none" THEN Ret(Load(c, t, st), st)
    ELSE storeAndReturn(c, t, wrapped(c, t, Invoked(c, t, st)))

(***************************************************************************)
(* The state after construction: NewMarshaler and NewUnmarshaler have     *)
(* wrapped new factories in empty caches.                                  *)
(***************************************************************************)
State == [cache |-> cache, calls |-> calls]

InitPipelines ==
    /\ cache = [c \in Caches |-> [t \in Types |-> NoEntry]]
    /\ calls = [c \in Caches |-> [t \in Types |-> 0]]
    /\ reg = [U |-> newUnmarshalerFactory, M |-> newMarshalerFactory,
              VU |-> newValuesUnmarshalerFactory, VM |-> newValuesMarshalerFactory]
    /\ nreg = 0
    /\ last = [op |-> "none"]

\* prepareUnmarshalOptions and prepareMarshalOptions on options that set no
\* tag default.
PlainDefaults ==
    [U |-> InitDefaultsU(NewUndefinedUnmarshalTagOptions),
     M |-> InitDefaultsM(NewUndefinedMarshalTagOptions),
     C |-> InitDefaultsC(NewUndefinedCommonTagOptions)]

IdleProc == [pc |-> "idle"]

NoObject == [type |-> "none"]

(***************************************************************************)
(* Sequential use of the registration hooks and of the caches.            *)
(***************************************************************************)
\* The types resolved and the keys registered in this part of the model.
RegPairs ==
    {<<"M", "Celsius">>, <<"M", "Time">>, <<"M", "Own">>, <<"M", "chan">>,
     <<"U", "Celsius">>}

CustomTypes == {"Celsius", "Time", "Own"}

RegKinds == {"Int", "Chan"}

Fns == {"fnA"}

InitReg ==
    /\ InitPipelines
    /\ tagDefaults = PlainDefaults
    /\ procs = [p \in Procs |-> IdleProc]
    /\ hist = [early |-> [c \in {"M", "U"} |-> [t \in Types |-> ""]]]
    /\ obj = NoObject

\* The state after a resolution through cache c that returned r.
Resolved(c, t, r) ==
    /\ cache' = r.st.cache
    /\ calls' = r.st.calls
    /\ last' = [op |-> "Resolve", c |-> c, t |-> t, res |-> r.res,
                first |-> cache[c][t].kind = "none",
                early |-> IF c \in {"M", "U"} THEN hist.early[c][t] ELSE ""]
    /\ UNCHANGED <<reg, nreg, tagDefaults, procs, hist, obj>>

\* One resolution through cache c, run to its end.
Resolve(c, t) == Resolved(c, t, cacher(c, t, State))

\* m[key] = item on the map at reg[c][field]: a nil map panics and nothing
\* is written.
MapAssign(op, c, field, key, item) ==
    /\ nreg < MaxRegs
    /\ nreg' = nreg + 1
    /\ reg' = IF reg[c][field].nil THEN reg
              ELSE [reg EXCEPT ![c][field].m[key] = item]
    /\ last' = [op |-> op, c |-> c, key |-> key, item |-> item,
                outcome |-> IF reg[c][field].nil THEN "panic" ELSE "ok"]
    /\ UNCHANGED <<cache, calls, tagDefaults, procs, obj>>

\* The converter object a registration wraps fn in.
Registered(fn) == Conv([k |-> "prim", fn |-> fn], <<"reg", fn, nreg + 1>>)

\* Remembers fn as registered for t before t was first resolved through c.
NoteEarly(c, t, fn) ==
    hist' = IF cache[c][t].kind = "none" THEN [hist EXCEPT !.early[c][t] = fn]
            ELSE hist

\* unmarshalerFactory.RegisterCustomType, reached through QSUnmarshaler and
\* unmarshalerCache.
unmarshalerRegisterCustomType(t, fn) ==
    /\ MapAssign("RegisterCustomType", "U", "typesOverriden", t, Registered(fn))
    /\ NoteEarly("U", t, fn)

\* unmarshalerFactory.RegisterKindOverride
unmarshalerRegisterKindOverride(k, fn) ==
    /\ MapAssign("RegisterKindOverride", "U", "kindsOverriden", k, Registered(fn))
    /\ UNCHANGED hist

\* unmarshalerFactory.RegisterSubFactory
unmarshalerRegisterSubFactory(k, fn) ==
    /\ MapAssign("RegisterSubFactory", "U", "kindSubRegistriesOverriden", k,
                 [kind |-> "factory", fn |-> fn])
    /\ UNCHANGED hist

\* valuesUnmarshalerFactory.RegisterSubFactory
valuesUnmarshalerRegisterSubFactory(k, fn) ==
    /\ MapAssign("RegisterSubFactory", "VU", "kindSubRegistriesOverriden", k,
                 [kind |-> "factory", fn |-> fn])
    /\ UNCHANGED hist

\* marshalerCache passing a registration on to the factory it wraps, as
\* unmarshalerCache does.
marshalerCacheForward(op, field, key, item) ==
    MapAssign(op, "M", field, key, item)

\* marshalerFactory.RegisterCustomType
marshalerRegisterCustomType(t, fn) ==
    /\ marshalerCacheForward("RegisterCustomType", "typesOverriden", t, Registered(fn))
    /\ NoteEarly("M", t, fn)

\* marshalerFactory.RegisterKindOverride
marshalerRegisterKindOverride(k, fn) ==
    /\ marshalerCacheForward("RegisterKindOverride", "kindsOverriden", k, Registered(fn))
    /\ UNCHANGED hist

\* marshalerFactory.RegisterSubFactory
marshalerRegisterSubFactory(k, fn) ==
    /\ marshalerCacheForward("RegisterSubFactory", "kindSubRegistriesOverriden", k,
                             [kind |-> "factory", fn |-> fn])
    /\ UNCHANGED hist

\* valuesMarshalerFactory.RegisterSubFactory
valuesMarshalerRegisterSubFactory(k, fn) ==
    /\ MapAssign("RegisterSubFactory", "VM", "kindSubRegistriesOverriden", k,
                 [kind |-> "factory", fn |-> fn])
    /\ UNCHANGED hist

NextReg ==
    \/ \E pr \in RegPairs : Resolve(pr[1], pr[2])
    \/ \E t \in CustomTypes, fn \in Fns : unmarshalerRegisterCustomType(t, fn)
    \/ \E k \in RegKinds, fn \in Fns : unmarshalerRegisterKindOverride(k, fn)
    \/ \E k \in RegKinds, fn \in Fns : unmarshalerRegisterSubFactory(k, fn)
    \/ \E k \in RegKinds, fn \in Fns : valuesUnmarshalerRegisterSubFactory(k, fn)
    \/ \E t \in CustomTypes, fn \in Fns : marshalerRegisterCustomType(t, fn)
    \/ \E k \in RegKinds, fn \in Fns : marshalerRegisterKindOverride(k, fn)
    \/ \E k \in RegKinds, fn \in Fns : marshalerRegisterSubFactory(k, fn)
    \/ \E k \in RegKinds, fn \in Fns : valuesMarshalerRegisterSubFactory(k, fn)

SpecReg == InitReg /\ [][NextReg]_vars

(***************************************************************************)
(* Concurrent resolutions through the caches.  A goroutine's resolution   *)
(* is the three steps of cacher: Load, the wrapped factory, Store.        *)
(***************************************************************************)
\* The cache and type the goroutines of a run contend for: a record built
\* anew by each invocation, an unhandled type at the entry and at the
\* values level, a self-converting type, and a type whose converter is the
\* factory's one shared object.
CachePairs ==
    {<<"VU", "Inner">>, <<"U", "chan">>, <<"M", "Own">>, <<"VM", "int">>,
     <<"M", "int">>, <<"U", "*int">>}

\* Whether goroutine q is inside a resolution.
Resolving(q) == procs[q].pc \in {"load", "miss", "store"}

InitCache ==
    /\ InitPipelines
    /\ tagDefaults = PlainDefaults
    /\ procs = [p \in Procs |-> IdleProc]
    /\ \E pr \in CachePairs :
          hist = [c |-> pr[1], t |-> pr[2], returned |-> {}, failed |-> {},
                  callers |-> {}, overlapped |-> FALSE]
    /\ obj = NoObject

\* Goroutine p calls the cache for the type.  known and knownFailed are
\* what resolutions of the type had returned, and what the wrapped factory
\* had failed with, before this call.
Start(p) ==
    /\ procs[p].pc \in {"idle", "done"}
    /\ procs' = [procs EXCEPT ![p] =
                    [pc |-> "load", c |-> hist.c, t |-> hist.t, m |-> NoEntry,
                     invoked |-> FALSE,
                     known |-> hist.returned,
                     knownFailed |-> hist.failed]]
    /\ hist' = [hist EXCEPT
                  !.callers = @ \cup {p},
                  !.overlapped = @ \/ \E q \in Procs \ {p} : Resolving(q)]
    /\ UNCHANGED <<cache, calls, reg, nreg, tagDefaults, obj, last>>

\* cache.Load(t) and, on a hit, the return of the item.
LoadStep(p, item) ==
    /\ procs[p].pc = "load"
    /\ procs' = [procs EXCEPT ![p].m = item,
                              ![p].pc = IF item.kind # "none" THEN "done" ELSE "miss"]
    /\ hist' = IF item.kind # "none"
               THEN [hist EXCEPT !.returned = @ \cup {item}]
               ELSE hist
    /\ UNCHANGED <<cache, calls, reg, nreg, tagDefaults, obj, last>>

CacheLoad(p) == LoadStep(p, Load(procs[p].c, procs[p].t, State))

\* m, err = wrapped(t, opts): the factory runs, with the resolutions it
\* makes itself, while no other goroutine takes a step.
InvokeStep(p, r) ==
    /\ procs[p].pc = "miss"
    /\ procs' = [procs EXCEPT ![p].m = r.res, ![p].invoked = TRUE, ![p].pc = "store"]
    /\ cache' = r.st.cache
    /\ calls' = r.st.calls
    /\ hist' = IF r.res.kind = "err"
               THEN [hist EXCEPT !.failed = @ \cup {r.res}]
               ELSE hist
    /\ UNCHANGED <<reg, nreg, tagDefaults, obj, last>>

CacheInvoke(p) ==
    /\ procs[p].pc = "miss"
    /\ InvokeStep(p, wrapped(procs[p].c, procs[p].t,
                             Invoked(procs[p].c, procs[p].t, State)))

\* cache.Store(t, m) or cache.Store(t, err), and the return.
StoreStep(p, st) ==
    /\ procs[p].pc = "store"
    /\ cache' = st.cache
    /\ procs' = [procs EXCEPT ![p].pc = "done"]
    /\ hist' = [hist EXCEPT !.returned = @ \cup {procs[p].m}]
    /\ UNCHANGED <<calls, reg, nreg, tagDefaults, obj, last>>

CacheStore(p) ==
    /\ procs[p].pc = "store"
    /\ StoreStep(p, Store(procs[p].c, procs[p].t, procs[p].m, State))

NextCache ==
    \/ \E p \in Procs : Start(p)
    \/ \E p \in Procs : CacheLoad(p)
    \/ \E p \in Procs : CacheInvoke(p)
    \/ \E p \in Procs : CacheStore(p)

SpecCache == InitCache /\ [][NextCache]_vars

(***************************************************************************)
(* Properties of the caches under concurrent resolutions (SpecCache).     *)
(***************************************************************************)
\* Two outcomes are equivalent when both are converters, or both errors,
\* of the same content; they are the same object when also the ids agree.
Equivalent(a, b) == a.kind = b.kind /\ a.desc = b.desc

\* What the wrapped factory produces for the contended type.
FactoryOutcome == wrapped(hist.c, hist.t, Invoked(hist.c, hist.t, State)).res

Finished(p) == procs[p].pc = "done"

\* C1 as stated: once a resolution of t has returned converter c, every
\* resolution of t that starts afterwards returns the identical converter c
\* and does not invoke the wrapped factory.
C1_AsStated ==
    \A p \in Procs : Finished(p) =>
        \A r \in procs[p].known : r.kind = "conv" =>
            procs[p].m = r /\ ~procs[p].invoked

\* C1 amended: once a resolution of t has returned converter c, every
\* resolution of t that starts afterwards returns, without invoking the
\* wrapped factory, a converter equivalent to c; it is c itself whenever
\* the wrapped factory has been invoked once for t, and resolutions that
\* do not overlap invoke it exactly once.
C1_Amended ==
    /\ \A p \in Procs : Finished(p) =>
          \A r \in procs[p].known : r.kind = "conv" =>
              /\ Equivalent(procs[p].m, r)
              /\ ~procs[p].invoked
              /\ calls[hist.c][hist.t] = 1 => procs[p].m = r
    /\ ~hist.overlapped /\ hist.returned # {} => calls[hist.c][hist.t] = 1

\* A later resolution has returned the very converter an earlier one had
\* returned, without invoking the factory.
C1_Witness ==
    \E p \in Procs :
        /\ Finished(p)
        /\ ~procs[p].invoked
        /\ \E r \in procs[p].known : r.kind = "conv" /\ procs[p].m = r

\* C2 as stated: once the wrapped factory has failed for t with error e,
\* every later resolution of t returns that same error e and the wrapped
\* factory is not invoked again for t.
C2_AsStated ==
    \A p \in Procs : Finished(p) =>
        \A e \in procs[p].knownFailed : procs[p].m = e /\ ~procs[p].invoked

\* C2 amended: once a resolution of t has returned error e, every
\* resolution of t that starts afterwards returns, without invoking the
\* wrapped factory, an error of the same content as e; it is e itself
\* whenever the wrapped factory has been invoked once for t.
C2_Amended ==
    \A p \in Procs : Finished(p) =>
        \A r \in procs[p].known : r.kind = "err" =>
            /\ Equivalent(procs[p].m, r)
            /\ ~procs[p].invoked
            /\ calls[hist.c][hist.t] = 1 => procs[p].m = r

\* A later resolution has returned the very error an earlier one had
\* returned, without invoking the factory.
C2_Witness ==
    \E p \in Procs :
        /\ Finished(p)
        /\ ~procs[p].invoked
        /\ \E r \in procs[p].known : r.kind = "err" /\ procs[p].m = r

C3_Outcomes ==
    /\ \A p \in Procs : Finished(p) => Equivalent(procs[p].m, FactoryOutcome)
    /\ calls[hist.c][hist.t] <= Cardinality(hist.callers)
    /\ hist.returned # {} => calls[hist.c][hist.t] >= 1
    /\ (hist.callers # {} /\ \A q \in Procs : ~Resolving(q))
          => Equivalent(cache[hist.c][hist.t], FactoryOutcome)

C3_NoFlip ==
    cache[hist.c][hist.t].kind # "none"
        => cache'[hist.c][hist.t].kind = cache[hist.c][hist.t].kind

\* C3: when N calls concurrently resolve the same uncached type t, each
\* call returns the outcome the wrapped factory produces for t, the
\* factory is invoked at least once and at most N times, after all calls
\* have finished the cache holds an entry for t that equals that outcome,
\* and a stored converter is never replaced by an error or an error by a
\* converter.
C3_Concurrent == [](C3_Outcomes) /\ [][C3_NoFlip]_vars

\* Every goroutine has missed, invoked the factory and stored, and all
\* have finished.
C3_Witness ==
    /\ calls[hist.c][hist.t] = NProcs
    /\ \A p \in Procs : Finished(p) /\ procs[p].invoked
    /\ cache[hist.c][hist.t].kind # "none"

(***************************************************************************)
(* Properties of the registration hooks (SpecReg).                        *)
(***************************************************************************)
\* C4 as stated: on both pipelines RegisterCustomType(T, fn) called before
\* T is first resolved completes without panic, and the first resolution
\* of T after it returns the converter wrapping fn.
C4_AsStated ==
    /\ last.op = "RegisterCustomType" => last.outcome = "ok"
    /\ (last.op = "Resolve" /\ last.c \in {"M", "U"} /\ last.first /\ last.early # "")
          => /\ last.res.kind = "conv"
             /\ last.res.desc = [k |-> "prim", fn |-> last.early]

\* What resolving t through cache c would return now.
ResolveOutcome(c, t) == cacher(c, t, State).res

C5_Step ==
    \A pr \in RegPairs :
        cache[pr[1]][pr[2]].kind # "none"
            => ResolveOutcome(pr[1], pr[2])' = cache[pr[1]][pr[2]]

\* C5: once a converter or an error is cached for t, no later
\* RegisterCustomType, RegisterKindOverride or RegisterSubFactory changes
\* what resolving t returns: it stays the outcome cached at the first
\* resolution.
C5_CachedOutcomeKept == [][C5_Step]_vars

\* A registration has gone through that would give a resolved type
\* another converter, had the type not been resolved before.
C5_Witness ==
    /\ last.op \in {"RegisterCustomType", "RegisterKindOverride", "RegisterSubFactory"}
    /\ last.outcome = "ok"
    /\ \E pr \in RegPairs :
          /\ cache[pr[1]][pr[2]].kind # "none"
          /\ ResolveOutcome(pr[1], pr[2]) = cache[pr[1]][pr[2]]
          /\ ~Equivalent(wrapped(pr[1], pr[2], Invoked(pr[1], pr[2], State)).res,
                         cache[pr[1]][pr[2]])

(***************************************************************************)
(* Values.  An int is an integer; a pointer is nil or points to a value;  *)
(* a slice is nil or holds a sequence; a record is the sequence of its    *)
(* fields, v.Field(i).  A Go string handed to a converter is a sequence   *)
(* of one-character strings.                                               *)
(***************************************************************************)
NilPtr == [nil |-> TRUE]

PtrTo(v) == [nil |-> FALSE, elem |-> v]

NilSlice == [nil |-> TRUE]

SliceOf(s) == [nil |-> FALSE, elems |-> s]

\* The zero value of a type: reflect.New(t).Elem(), an element of
\* reflect.MakeSlice.
RECURSIVE Zero(_)
Zero(t) ==
    CASE Kind(t) \in {"Int", "Uint"} -> 0
      [] Kind(t) = "String" -> << >>
      [] Kind(t) = "Bool" -> FALSE
      [] Kind(t) = "Ptr" -> NilPtr
      [] Kind(t) = "Slice" -> NilSlice
      [] Kind(t) = "Map" -> [nil |-> TRUE]
      [] Kind(t) = "Struct" ->
            [i \in 1..Len(StructFields(t)) |-> Zero(StructFields(t)[i].Type)]

\* What a converter returns: the value it leaves in v, and its error.
Done(v, err) == [val |-> v, err |-> err]

\* &ReqError{FieldName: name}
ReqError(name) == [k |-> "ReqError", FieldName |-> name]

\* An error of another type: one made by fmt.Errorf or by strconv.
OtherError(what) == [k |-> "error", what |-> what]

\* IsRequiredFieldError
IsRequiredFieldError(e) ==
    IF e.k = "ReqError" THEN <<e.FieldName, TRUE>> ELSE <<"", FALSE>>

\* The value of a decimal digit, -1 for any other character.
DigitValue(ch) ==
    CASE ch = "0" -> 0 [] ch = "1" -> 1 [] ch = "2" -> 2 [] ch = "3" -> 3
      [] ch = "4" -> 4 [] ch = "5" -> 5 [] ch = "6" -> 6 [] ch = "7" -> 7
      [] ch = "8" -> 8 [] ch = "9" -> 9 [] OTHER -> -1

\* The digits of strconv.ParseInt(s, 0, 64) and strconv.ParseUint(s, 0, 64)
\* on a string without base prefix or underscore: the decimal value of the
\* digits, -1 for a syntax error.
RECURSIVE ParseInt(_, _, _)
ParseInt(s, i, acc) ==
    IF Len(s) = 0 THEN -1
    ELSE IF i > Len(s) THEN acc
    ELSE IF DigitValue(s[i]) < 0 THEN -1
    ELSE ParseInt(s, i + 1, acc * 10 + DigitValue(s[i]))

\* The end of unmarshalInt: v.SetInt(i) unless ParseInt failed.
setInt(v, i) == IF i < 0 THEN Done(v, OtherError("ParseInt")) ELSE Done(i, NoError)

\* The end of unmarshalInt on a string with a minus sign.
setNegative(v, i) == IF i < 0 THEN Done(v, OtherError("ParseInt")) ELSE Done(0 - i, NoError)

\* An unmarshalString that leaves the value as it is.
unmarshalNothing(v, s) == Done(v, NoError)

\* unmarshalString: v.SetString(s)
unmarshalString(v, s) == Done(s, NoError)

\* strconv.ParseBool
TrueStrings ==
    {<<"1">>, <<"t">>, <<"T">>, <<"t", "r", "u", "e">>, <<"T", "R", "U", "E">>,
     <<"T", "r", "u", "e">>}

FalseStrings ==
    {<<"0">>, <<"f">>, <<"F">>, <<"f", "a", "l", "s", "e">>, <<"F", "A", "L", "S", "E">>,
     <<"F", "a", "l", "s", "e">>}

unmarshalBool(v, s) ==
    IF s \in TrueStrings THEN Done(TRUE, NoError)
    ELSE IF s \in FalseStrings THEN Done(FALSE, NoError)
    ELSE Done(v, OtherError("ParseBool"))

unmarshalInt(v, s) ==
    IF Len(s) > 0 /\ s[1] = "-" THEN setNegative(v, ParseInt(Tail(s), 1, 0))
    ELSE IF Len(s) > 0 /\ s[1] = "+" THEN setInt(v, ParseInt(Tail(s), 1, 0))
    ELSE setInt(v, ParseInt(s, 1, 0))

unmarshalUint(v, s) == setInt(v, ParseInt(s, 1, 0))

\* defaultSliceToString followed by f.fn: the functions of the kinds map.
primitiveUnmarshalerFunc(fn, v, a) ==
    IF a.nil THEN Done(v, NoError)
    ELSE IF Len(a.items) # 1 THEN Done(v, OtherError("SliceToString"))
    ELSE CASE fn = "unmarshalInt" -> unmarshalInt(v, a.items[1])
           [] fn = "unmarshalUint" -> unmarshalUint(v, a.items[1])
           [] fn = "unmarshalString" -> unmarshalString(v, a.items[1])
           [] fn = "unmarshalBool" -> unmarshalBool(v, a.items[1])

\* A []string: nil, or a list of strings.
NilList == [nil |-> TRUE, items |-> << >>]

ListOf(items) == [nil |-> FALSE, items |-> items]

\* strings.Split(s, sep) from position i on: cur is the piece being read,
\* out the pieces read.
RECURSIVE stringsSplit(_, _, _, _, _)
stringsSplit(s, sep, i, cur, out) ==
    IF i > Len(s) THEN Append(out, cur)
    ELSE IF s[i] = sep THEN stringsSplit(s, sep, i + 1, << >>, Append(out, cur))
    ELSE stringsSplit(s, sep, i + 1, Append(cur, s[i]), out)

RECURSIVE splitAll(_, _, _, _)
splitAll(items, sep, i, out) ==
    IF i > Len(items) THEN out
    ELSE splitAll(items, sep, i + 1, out \o stringsSplit(items[i], sep, 1, << >>, << >>))

\* A splitArrayBySeparatorWithSameOrder that splits nothing.
unsplit(a, separatorType) == a.items

splitArrayBySeparatorWithSameOrder(a, separatorType) ==
    CASE separatorType = "None" -> a.items
      [] separatorType = "Comma" -> splitAll(a.items, ",", 1, << >>)
      [] separatorType = "Semicolon" -> splitAll(a.items, ";", 1, << >>)
      [] separatorType = "Space" -> splitAll(a.items, " ", 1, << >>)

(***************************************************************************)
(* Entry converters at work.                                               *)
(***************************************************************************)
RECURSIVE Unmarshal(_, _, _, _)

\* The end of ptrUnmarshaler.Unmarshal: v points to what the element
\* converter left.
ptrDone(r) == Done(PtrTo(r.val), r.err)

\* ptrUnmarshaler.Unmarshal
ptrUnmarshaler(u, v, a, tag) ==
    ptrDone(Unmarshal(u.Elem, IF v.nil THEN Zero(Elem(u.Type)) ELSE v.elem, a, tag))

RECURSIVE sliceLoop(_, _, _, _, _)

\* One turn of the loop of sliceUnmarshaler.Unmarshal: r is what the
\* element converter made of vals[i] in v.Index(n).
sliceTurn(u, vals, i, acc, tag, r) ==
    IF r.err.k = "none"
    THEN sliceLoop(u, vals, i + 1,
                   [acc EXCEPT !.elems = Append(@, r.val),
                               !.slot = Zero(Elem(u.Type))], tag)
    ELSE IF tag.UnmarshalOpts.SliceUnexpectedValue = "BreakWithError"
    THEN [acc EXCEPT !.err = OtherError("slice index")]
    ELSE sliceLoop(u, vals, i + 1, [acc EXCEPT !.slot = r.val], tag)

\* The loop over vals from index i on: acc.elems is v[0:n], acc.slot is
\* v.Index(n).
sliceLoop(u, vals, i, acc, tag) ==
    IF i > Len(vals) THEN acc
    ELSE sliceTurn(u, vals, i, acc, tag,
                   Unmarshal(u.Elem, acc.slot, ListOf(<<vals[i]>>), tag))

\* An end of sliceUnmarshaler.Unmarshal that does not clear after an error.
sliceCut(acc) == Done(SliceOf(acc.elems), acc.err)

\* The end of sliceUnmarshaler.Unmarshal: cleared after an error, cut to
\* the converted elements otherwise.
sliceDone(acc) ==
    IF acc.err.k # "none" THEN Done(SliceOf(<< >>), acc.err)
    ELSE Done(SliceOf(acc.elems), NoError)

\* A sliceUnmarshaler.Unmarshal that keeps the old elements in every mode.
sliceKeeper(u, v, a, tag) ==
    sliceDone(
        sliceLoop(u,
                  splitArrayBySeparatorWithSameOrder(a, tag.CommonOpts.SliceSeparator),
                  1,
                  [elems |-> IF ~v.nil THEN v.elems ELSE << >>,
                   slot |-> Zero(Elem(u.Type)),
                   err |-> NoError],
                  tag))

\* sliceUnmarshaler.Unmarshal: a nil slice is made anew; a slice that is
\* not nil is replaced by a new one that keeps the old elements only in
\* the KeepOld mode.
sliceUnmarshaler(u, v, a, tag) ==
    sliceDone(
        sliceLoop(u,
                  splitArrayBySeparatorWithSameOrder(a, tag.CommonOpts.SliceSeparator),
                  1,
                  [elems |-> IF ~v.nil /\ tag.UnmarshalOpts.SliceValues = "KeepOld"
                             THEN v.elems ELSE << >>,
                   slot |-> Zero(Elem(u.Type)),
                   err |-> NoError],
                  tag))

\* Unmarshaler.Unmarshal of the converter u.
Unmarshal(u, v, a, tag) ==
    CASE u.k = "prim" -> primitiveUnmarshalerFunc(u.fn, v, a)
      [] u.k = "ptr" -> ptrUnmarshaler(u, v, a, tag)
      [] u.k = "slice" -> sliceUnmarshaler(u, v, a, tag)

(***************************************************************************)
(* Values converters at work.  A run keeps a log of what was done with    *)
(* each field it got to: "skip" for a field passed over, "req" for a      *)
(* required field found missing, "conv" and "fail" for a field whose      *)
(* entry converter was invoked and returned nil or an error.              *)
(***************************************************************************)
Event(t, i, ev) == [Type |-> t, Field |-> i, ev |-> ev]

Ran(v, err, log) == [val |-> v, err |-> err, log |-> log]

\* A switch without the req case: a missing required field is converted.
mutedRequired(presence) ==
    IF presence = "Nil" THEN "continue" ELSE "convert"

\* A switch without cases: every missing field is converted.
alwaysConvert(presence) == "convert"

\* The switch of structUnmarshaler.UnmarshalValues on the presence of a
\* field whose key is not in the map.
absentKey(presence) ==
    CASE presence = "Nil" -> "continue"
      [] presence = "Req" -> "return"
      [] OTHER -> "convert"

\* An embedded field's error wrapped by fmt.Errorf whatever its type.
plainEmbeddedError(t, i, err) == OtherError("embedded field")

\* The error structUnmarshaler.UnmarshalValues returns for the error err
\* of the embedded field i of t.
embeddedError(t, i, err) ==
    IF IsRequiredFieldError(err)[2] THEN ReqError(StructFields(t)[i].Name)
    ELSE OtherError("embedded field")

\* vs[key] of a url.Values: the list under the key, nil without the key.
Get(vs, key) == IF key \in DOMAIN vs THEN vs[key] ELSE NilList

RECURSIVE UnmarshalValues(_, _, _)
RECURSIVE fieldsLoop(_, _, _, _, _)
RECURSIVE embeddedLoop(_, _, _, _, _)

\* A turn that gives the record back as new when the converter fails.
fieldTurnRolledBack(u, i, v, vs, log, r) ==
    IF r.err.k # "none"
    THEN Ran(Zero(u.Type), OtherError("entry"),
             Append(log, Event(u.Type, u.Fields[i].FieldIndex, "fail")))
    ELSE fieldsLoop(u, i + 1, [v EXCEPT ![u.Fields[i].FieldIndex] = r.val], vs,
                    Append(log, Event(u.Type, u.Fields[i].FieldIndex, "conv")))

\* One turn of the loop over p.Fields: r is what the entry converter of
\* field i made of the field.
fieldTurn(u, i, v, vs, log, r) ==
    IF r.err.k # "none"
    THEN Ran([v EXCEPT ![u.Fields[i].FieldIndex] = r.val],
             OtherError("entry"),
             Append(log, Event(u.Type, u.Fields[i].FieldIndex, "fail")))
    ELSE fieldsLoop(u, i + 1, [v EXCEPT ![u.Fields[i].FieldIndex] = r.val], vs,
                    Append(log, Event(u.Type, u.Fields[i].FieldIndex, "conv")))

\* The loop over p.Fields from index i on, then the loop over
\* p.EmbeddedFields.
fieldsLoop(u, i, v, vs, log) ==
    IF i > Len(u.Fields) THEN embeddedLoop(u, 1, v, vs, log)
    ELSE IF u.Fields[i].Tag.Name \notin DOMAIN vs
            /\ absentKey(u.Fields[i].Tag.UnmarshalOpts.Presence) = "continue"
    THEN fieldsLoop(u, i + 1, v, vs,
                    Append(log, Event(u.Type, u.Fields[i].FieldIndex, "skip")))
    ELSE IF u.Fields[i].Tag.Name \notin DOMAIN vs
            /\ absentKey(u.Fields[i].Tag.UnmarshalOpts.Presence) = "return"
    THEN Ran(v, ReqError(u.Fields[i].Tag.Name),
             Append(log, Event(u.Type, u.Fields[i].FieldIndex, "req")))
    ELSE fieldTurn(u, i, v, vs, log,
                   Unmarshal(u.Fields[i].Conv, v[u.Fields[i].FieldIndex],
                             Get(vs, u.Fields[i].Tag.Name), u.Fields[i].Tag))

\* One turn of the loop over p.EmbeddedFields: r is what the values
\* converter of embedded field j made of the field.
embeddedTurn(u, j, v, vs, log, r) ==
    IF r.err.k # "none"
    THEN Ran([v EXCEPT ![u.EmbeddedFields[j].FieldIndex] = r.val],
             embeddedError(u.Type, u.EmbeddedFields[j].FieldIndex, r.err),
             log \o r.log)
    ELSE embeddedLoop(u, j + 1,
                      [v EXCEPT ![u.EmbeddedFields[j].FieldIndex] = r.val], vs,
                      log \o r.log)

embeddedLoop(u, j, v, vs, log) ==
    IF j > Len(u.EmbeddedFields) THEN Ran(v, NoError, log)
    ELSE embeddedTurn(u, j, v, vs, log,
                      UnmarshalValues(u.EmbeddedFields[j].Conv,
                                      v[u.EmbeddedFields[j].FieldIndex], vs))

\* structUnmarshaler.UnmarshalValues
structUnmarshaler(u, v, vs) == fieldsLoop(u, 1, v, vs, << >>)

\* The end of ptrValuesUnmarshaler.UnmarshalValues.
ptrValuesDone(r) == Ran(PtrTo(r.val), r.err, r.log)

\* ptrValuesUnmarshaler.UnmarshalValues
ptrValuesUnmarshaler(u, v, vs) ==
    ptrValuesDone(UnmarshalValues(u.Elem,
                                  IF v.nil THEN Zero(Elem(u.Type)) ELSE v.elem, vs))

\* A map value: the nil map, or the map that holds m.
NilMapValue == [nil |-> TRUE]

MapValueOf(m) == [nil |-> FALSE, m |-> m]

\* reflect.MakeMap(t)
MakeMap == MapValueOf(<< >>)

\* v.SetMapIndex(key, item)
SetMapIndex(v, key, item) ==
    MapValueOf([k \in DOMAIN v.m \cup {key} |-> IF k = key THEN item ELSE v.m[k]])

\* NewUnmarshalOptions(opts, nil): the tag made of the defaults the
\* pipeline has at the call.
NewUnmarshalOptions ==
    [nil |-> FALSE, err |-> FALSE, why |-> "", Name |-> "",
     MarshalPresence |-> "Unspecified",
     UnmarshalOpts |-> tagDefaults.U, CommonOpts |-> tagDefaults.C]

RECURSIVE mapLoop(_, _, _, _, _)

\* One turn of the loop of mapUnmarshaler.UnmarshalValues: r is what the
\* element converter made of the list under the key in a new item.
mapTurn(u, v, vs, order, i, r) ==
    IF r.err.k # "none" THEN Ran(v, OtherError("key"), << >>)
    ELSE mapLoop(u, SetMapIndex(v, order[i], r.val), vs, order, i + 1)

\* for k, a := range vs, in the order the range visits the keys.
mapLoop(u, v, vs, order, i) ==
    IF i > Len(order) THEN Ran(v, NoError, << >>)
    ELSE mapTurn(u, v, vs, order, i,
                 Unmarshal(u.Elem, Zero(Elem(u.Type)), vs[order[i]],
                           NewUnmarshalOptions))

\* A mapUnmarshaler.UnmarshalValues that begins with a new map.
mapUnmarshalerClearing(u, v, vs, order) == mapLoop(u, MakeMap, vs, order, 1)

\* mapUnmarshaler.UnmarshalValues: a nil map is made, then the loop.
mapUnmarshaler(u, v, vs, order) ==
    mapLoop(u, IF v.nil THEN MakeMap ELSE v, vs, order, 1)

\* ValuesUnmarshaler.UnmarshalValues of the converter u.
UnmarshalValues(u, v, vs) ==
    CASE u.k = "struct" -> structUnmarshaler(u, v, vs)
      [] u.k = "ptr" -> ptrValuesUnmarshaler(u, v, vs)

(***************************************************************************)
(* Unmarshaling into one object: a pipeline made by NewUnmarshaler with   *)
(* pipeline-wide slice defaults, and calls of its UnmarshalValues on a    *)
(* pointer to the object, which begins at the zero value of its type.     *)
(***************************************************************************)
TargetTypes == {"Inner", "Two", "Mid", "Outer", "NilRec", "OptRec"}

\* The strings a value list may hold: a number and a word.
Tokens == {<<"2", "1">>, <<"x">>}

RECURSIVE SeqsUpTo(_, _)
SeqsUpTo(S, n) ==
    IF n = 0 THEN {<< >>}
    ELSE SeqsUpTo(S, n - 1)
         \cup {Append(s, x) : s \in {q \in SeqsUpTo(S, n - 1) : Len(q) = n - 1}, x \in S}

\* The []string under a key: nil, or a list of up to MaxListLen strings.
Lists == {NilList} \cup {ListOf(items) : items \in SeqsUpTo(Tokens, MaxListLen)}

\* The keys the fields of a target type are read from.
KeysOf(t) ==
    CASE t \in {"Inner", "Mid"} -> {"n"}
      [] t = "Two" -> {"a", "b"}
      [] t = "Outer" -> {"a", "n"}
      [] t = "NilRec" -> {"s", "p"}
      [] t = "OptRec" -> {"q", "l"}
      [] t = "SkipRec" -> {"-", "hidden", "v"}

\* The url.Values a call may be given for a target of type t.
ValuesFor(t) ==
    IF t = "SkipRec" THEN {[k \in K |-> l] : K \in SUBSET KeysOf(t), l \in Lists}
    ELSE UNION {[K -> Lists] : K \in SUBSET KeysOf(t)}

\* No slice within the value v of type t is longer than MaxSliceLen.
RECURSIVE Bounded(_, _)
Bounded(t, v) ==
    CASE Kind(t) = "Int" -> TRUE
      [] Kind(t) = "Ptr" -> IF v.nil THEN TRUE ELSE Bounded(Elem(t), v.elem)
      [] Kind(t) = "Slice" -> IF v.nil THEN TRUE ELSE Len(v.elems) <= MaxSliceLen
      [] Kind(t) = "Map" -> TRUE
      [] Kind(t) = "Struct" ->
            \A i \in 1..Len(StructFields(t)) : Bounded(StructFields(t)[i].Type, v[i])

\* prepareUnmarshalOptions on the options WithUnmarshalSliceValues and
\* WithUnmarshalSliceUnexpectedValue have set.
UnmarshalDefaults(sliceValues, unexpected) ==
    [PlainDefaults EXCEPT
        !.U = InitDefaultsU([NewUndefinedUnmarshalTagOptions EXCEPT
                                !.SliceValues = sliceValues,
                                !.SliceUnexpectedValue = unexpected])]

InitUnm ==
    /\ InitPipelines
    /\ \E sliceValues \in {"Unspecified", "KeepOld"},
          unexpected \in {"Unspecified", "Skip"} :
            tagDefaults = UnmarshalDefaults(sliceValues, unexpected)
    /\ procs = [p \in Procs |-> IdleProc]
    /\ hist = [early |-> << >>]
    /\ \E t \in TargetTypes : obj = [type |-> t, val |-> Zero(t)]

\* The end of QSUnmarshaler.UnmarshalValues: r is the resolution of the
\* converter, u what the converter did.
unmarshalled(vs, r, u) ==
    /\ obj.type = "SliceRec" \/ Bounded(obj.type, u.val)
    /\ obj' = [obj EXCEPT !.val = u.val]
    /\ cache' = r.st.cache
    /\ calls' = r.st.calls
    /\ last' = [op |-> "UnmarshalValues", type |-> obj.type, vs |-> vs,
                before |-> obj.val, after |-> u.val, err |-> u.err,
                log |-> u.log]
    /\ UNCHANGED <<reg, nreg, tagDefaults, procs, hist>>

\* QSUnmarshaler.UnmarshalValues after the resolution r of the converter.
unmarshalWith(vs, r) ==
    IF r.res.kind = "err"
    THEN unmarshalled(vs, r, Ran(obj.val, OtherError("converter"), << >>))
    ELSE unmarshalled(vs, r, UnmarshalValues(r.res.desc, obj.val, vs))

\* QSUnmarshaler.UnmarshalValues(&obj, vs)
QSUnmarshalerUnmarshalValues(vs) ==
    unmarshalWith(vs, cacher("VU", obj.type, State))

NextUnm == \E vs \in ValuesFor(obj.type) : QSUnmarshalerUnmarshalValues(vs)

SpecUnm == InitUnm /\ [][NextUnm]_vars

(***************************************************************************)
(* One call of UnmarshalValues on a record with one slice field, under    *)
(* every slice option of the pipeline.                                     *)
(***************************************************************************)
\* The strings of the lists given for the slice.
SliceStrings ==
    {<<"1">>, <<"x">>, <<"2", ",", "3">>, <<"2", ";", "3">>, <<"2", " ", "3">>}

\* The url.Values of the call: without the key, or with a list under it.
SliceInputs ==
    {<< >>} \cup {[k \in {"l"} |-> ListOf(items)] :
                    items \in SeqsUpTo(SliceStrings, MaxInputLen)}

\* What the slice holds before the call.
OldSlices == {NilSlice, SliceOf(<< >>), SliceOf(<<8, 9>>)}

\* prepareUnmarshalOptions on the options WithUnmarshalSliceValues,
\* WithUnmarshalSliceUnexpectedValue and WithUnmarshalOptionSliceSeparator
\* have set.
SliceDefaults(sliceValues, unexpected, separator) ==
    [UnmarshalDefaults(sliceValues, unexpected) EXCEPT
        !.C = InitDefaultsC([NewUndefinedCommonTagOptions EXCEPT
                                !.SliceSeparator = separator])]

InitSlice ==
    /\ InitPipelines
    /\ \E sliceValues \in {"Unspecified", "KeepOld"},
          unexpected \in {"Unspecified", "Skip"},
          separator \in {"Unspecified", "Comma", "Semicolon", "Space"} :
            tagDefaults = SliceDefaults(sliceValues, unexpected, separator)
    /\ procs = [p \in Procs |-> IdleProc]
    /\ hist = [early |-> << >>]
    /\ \E old \in OldSlices : obj = [type |-> "SliceRec", val |-> <<old>>]

\* The first call on the object.
NextSlice ==
    /\ last.op = "none"
    /\ \E vs \in SliceInputs : QSUnmarshalerUnmarshalValues(vs)

SpecSlice == InitSlice /\ [][NextSlice]_vars

(***************************************************************************)
(* Properties of UnmarshalValues, stated on the last call: its target     *)
(* type, the map it was given, the object before and after, the error it  *)
(* returned and the log of the fields it got to.                          *)
(***************************************************************************)
Unmarshalled == last.op = "UnmarshalValues"

\* The record converter the last call ran.
TopConv == cache["VU"][last.type].desc

\* The direct field converters of the record, in declaration order.
Direct == TopConv.Fields

\* The call did one of evs with field i of t.
Did(t, i, evs) ==
    \E n \in 1..Len(last.log) :
        /\ last.log[n].Type = t
        /\ last.log[n].Field = i
        /\ last.log[n].ev \in evs

\* The loop over the direct fields got to the i-th of them.
Reached(i) == Did(last.type, Direct[i].FieldIndex, {"skip", "req", "conv", "fail"})

Absent(i) == Direct[i].Tag.Name \notin DOMAIN last.vs

Presence(i) == Direct[i].Tag.UnmarshalOpts.Presence

\* The encoded keys of the required fields of a converter: those of its
\* direct fields and of its embedded records, through pointers.
RECURSIVE RequiredKeys(_)
RequiredKeys(u) ==
    IF u.k = "ptr" THEN RequiredKeys(u.Elem)
    ELSE {u.Fields[i].Tag.Name :
            i \in {j \in 1..Len(u.Fields) : u.Fields[j].Tag.UnmarshalOpts.Presence = "Req"}}
         \cup UNION {RequiredKeys(u.EmbeddedFields[j].Conv) :
                        j \in 1..Len(u.EmbeddedFields)}

EmbeddedRequiredKeys(u) ==
    UNION {RequiredKeys(u.EmbeddedFields[j].Conv) : j \in 1..Len(u.EmbeddedFields)}

\* C6 as stated: whenever UnmarshalValues is given a map without the key of
\* a direct field of presence req, the error it returns is a required-field
\* error naming that key, and the field's converter was not invoked.
C6_AsStated ==
    Unmarshalled =>
        \A i \in 1..Len(Direct) :
            (Presence(i) = "Req" /\ Absent(i)) =>
                /\ IsRequiredFieldError(last.err) = <<Direct[i].Tag.Name, TRUE>>
                /\ ~Did(last.type, Direct[i].FieldIndex, {"conv", "fail"})

\* C6 amended: the same, for a field such that every direct field declared
\* before it was passed over or converted without error.
C6_Amended ==
    Unmarshalled =>
        \A i \in 1..Len(Direct) :
            (/\ Presence(i) = "Req"
             /\ Absent(i)
             /\ \A j \in 1..(i - 1) :
                    Did(last.type, Direct[j].FieldIndex, {"skip", "conv"})) =>
                /\ IsRequiredFieldError(last.err) = <<Direct[i].Tag.Name, TRUE>>
                /\ ~Did(last.type, Direct[i].FieldIndex, {"conv", "fail"})

\* A call on a Two whose first required field was converted and whose
\* second required field is missing and named by the error.
C6_Witness ==
    /\ Unmarshalled
    /\ last.type = "Two"
    /\ DOMAIN last.vs = {"a"}
    /\ Did("Two", 1, {"conv"})
    /\ IsRequiredFieldError(last.err) = <<"b", TRUE>>

\* C7 as stated: whenever the map lacks the key of a required field declared
\* in an embedded record (at any depth, through pointers), the error
\* returned is classified as a required-field error.
C7_AsStated ==
    Unmarshalled =>
        ((\E key \in EmbeddedRequiredKeys(TopConv) : key \notin DOMAIN last.vs)
            => IsRequiredFieldError(last.err)[2])

\* C7 amended: the same, for a call in which no field converter failed.
C7_Amended ==
    Unmarshalled =>
        ((/\ \E key \in EmbeddedRequiredKeys(TopConv) : key \notin DOMAIN last.vs
          /\ \A n \in 1..Len(last.log) : last.log[n].ev # "fail")
            => IsRequiredFieldError(last.err)[2])

\* A call on an Outer whose embedded *Mid was nil: the direct field was
\* converted, the required field of the Inner embedded in the Mid is missing
\* and the error is classified.
C7_Witness ==
    /\ Unmarshalled
    /\ last.type = "Outer"
    /\ DOMAIN last.vs = {"a"}
    /\ last.before[2].nil
    /\ Did("Outer", 1, {"conv"})
    /\ Did("Inner", 1, {"req"})
    /\ IsRequiredFieldError(last.err)[2]

\* C8 as stated: the name IsRequiredFieldError returns for the error of a
\* call is the encoded key of a required field, direct or embedded, that is
\* missing from the map.
C8_AsStated ==
    (Unmarshalled /\ IsRequiredFieldError(last.err)[2]) =>
        /\ IsRequiredFieldError(last.err)[1] \in RequiredKeys(TopConv)
        /\ IsRequiredFieldError(last.err)[1] \notin DOMAIN last.vs

\* The type of the i-th direct field of the record.
FieldType(i) == StructFields(last.type)[Direct[i].FieldIndex].Type

Before(i) == last.before[Direct[i].FieldIndex]

After(i) == last.after[Direct[i].FieldIndex]

\* C9: for each direct field of presence nil of the record of a call.  Its
\* key absent: its converter is not invoked, the field keeps the value it
\* had, and when the loop got to the field it went on to the next field.
\* Its key present, the loop got to it and it held a nil pointer: it holds a
\* pointer to an object after the call.
C9_NilPresence ==
    Unmarshalled =>
        \A i \in 1..Len(Direct) :
            Presence(i) = "Nil" =>
                /\ Absent(i) =>
                      /\ ~Did(last.type, Direct[i].FieldIndex, {"conv", "fail"})
                      /\ After(i) = Before(i)
                      /\ (Reached(i) /\ i < Len(Direct)) => Reached(i + 1)
                /\ (~Absent(i) /\ Reached(i) /\ Kind(FieldType(i)) = "Ptr"
                                /\ Before(i).nil) =>
                      ~After(i).nil

\* A call on a NilRec without the key of its slice, which held elements, and
\* with the key of its pointer, which was nil: the slice is as it was, the
\* loop went on to the pointer and the pointer was initialised.
C9_Witness ==
    /\ Unmarshalled
    /\ last.type = "NilRec"
    /\ DOMAIN last.vs = {"p"}
    /\ ~last.before[1].nil
    /\ Len(last.before[1].elems) > 0
    /\ last.after[1] = last.before[1]
    /\ Did("NilRec", 1, {"skip"})
    /\ last.before[2].nil
    /\ ~last.after[2].nil

\* C10 as stated: for each direct field of presence opt of the record of a
\* call, whose key is absent and which the loop got to: its conversion
\* succeeds; a scalar, a pointer that is not nil and a slice that is not nil
\* keep their value, whatever the slice-merge mode; a nil pointer becomes a
\* pointer to a new zero object and a nil slice a new empty slice.
C10_AsStated ==
    Unmarshalled =>
        \A i \in 1..Len(Direct) :
            (Presence(i) = "Opt" /\ Absent(i) /\ Reached(i)) =>
                /\ Did(last.type, Direct[i].FieldIndex, {"conv"})
                /\ After(i) =
                      (IF Kind(FieldType(i)) = "Ptr" /\ Before(i).nil
                       THEN PtrTo(Zero(Elem(FieldType(i))))
                       ELSE IF Kind(FieldType(i)) = "Slice" /\ Before(i).nil
                       THEN SliceOf(<< >>)
                       ELSE Before(i))

(***************************************************************************)
(* Marshaling.  An entry converter turns a value into a list of strings,  *)
(* a values converter turns a record into a url.Values: a function from   *)
(* the keys it holds to lists of strings.                                 *)
(***************************************************************************)
\* A decimal digit as a character.
DigitChar(d) ==
    CASE d = 0 -> "0" [] d = 1 -> "1" [] d = 2 -> "2" [] d = 3 -> "3"
      [] d = 4 -> "4" [] d = 5 -> "5" [] d = 6 -> "6" [] d = 7 -> "7"
      [] d = 8 -> "8" [] d = 9 -> "9"

\* strconv.FormatInt(i, 10) and strconv.FormatUint(i, 10)
RECURSIVE FormatInt(_)
FormatInt(i) ==
    IF i < 0 THEN <<"-">> \o FormatInt(0 - i)
    ELSE IF i < 10 THEN <<DigitChar(i)>>
    ELSE Append(FormatInt(i \div 10), DigitChar(i % 10))

\* strconv.FormatBool
FormatBool(b) == IF b THEN <<"t", "r", "u", "e">> ELSE <<"f", "a", "l", "s", "e">>

\* What Marshaler.Marshal returns: a list of strings and an error.
Made(a, err) == [a |-> a, err |-> err]

\* primitiveMarshalerFunc.Marshal: the one string the function returns.  A
\* registered function returns the string f for every value.
primitiveMarshalerFunc(fn, v) ==
    CASE fn = "marshalInt" -> Made(<<FormatInt(v)>>, NoError)
      [] fn = "marshalUint" -> Made(<<FormatInt(v)>>, NoError)
      [] fn = "marshalString" -> Made(<<v>>, NoError)
      [] fn = "marshalBool" -> Made(<<FormatBool(v)>>, NoError)
      [] OTHER -> Made(<< <<"f">> >>, NoError)

RECURSIVE Marshal(_, _)
RECURSIVE sliceMarshalLoop(_, _, _, _)

\* One turn of the loop of the slice marshaler: r is what the element
\* converter made of element i.
sliceMarshalTurn(m, v, i, acc, r) ==
    IF r.err.k # "none" THEN Made(<< >>, r.err)
    ELSE sliceMarshalLoop(m, v, i + 1, acc \o r.a)

sliceMarshalLoop(m, v, i, acc) ==
    IF i > Len(v.elems) THEN Made(acc, NoError)
    ELSE sliceMarshalTurn(m, v, i, acc, Marshal(m.Elem, v.elems[i]))

\* Marshaler.Marshal of the converter m: a nil pointer gives no string, a
\* pointer what it points to gives, a slice the strings of its elements.
Marshal(m, v) ==
    CASE m.k = "prim" -> primitiveMarshalerFunc(m.fn, v)
      [] m.k = "ptr" -> IF v.nil THEN Made(<< >>, NoError) ELSE Marshal(m.Elem, v.elem)
      [] m.k = "slice" ->
            IF v.nil THEN Made(<< >>, NoError) ELSE sliceMarshalLoop(m, v, 1, << >>)

\* An isEmpty that takes no value for empty.
neverEmpty(t, v) == FALSE

\* isEmpty on a value of type t
isEmpty(t, v) ==
    CASE Kind(t) = "Ptr" -> v.nil
      [] Kind(t) \in {"Int", "Uint"} -> v = 0
      [] Kind(t) = "Bool" -> ~v
      [] Kind(t) = "String" -> Len(v) = 0
      [] Kind(t) = "Slice" -> IF v.nil THEN TRUE ELSE Len(v.elems) = 0
      [] OTHER -> FALSE

\* vs[key] = a
Put(vs, key, a) ==
    [x \in DOMAIN vs \cup {key} |-> IF x = key THEN a ELSE vs[x]]

\* A merge of evs into vs that keeps the entries vs has.
keepAll(vs, evs) ==
    [x \in DOMAIN vs \cup DOMAIN evs |-> IF x \in DOMAIN vs THEN vs[x] ELSE evs[x]]

\* for k, a := range evs { vs[k] = a }
PutAll(vs, evs) ==
    [x \in DOMAIN vs \cup DOMAIN evs |-> IF x \in DOMAIN evs THEN evs[x] ELSE vs[x]]

\* What ValuesMarshaler.MarshalValues returns.
Values(vs, err) == [vs |-> vs, err |-> err]

RECURSIVE MarshalValues(_, _)
RECURSIVE marshalFieldsLoop(_, _, _, _)
RECURSIVE marshalEmbeddedLoop(_, _, _, _)

\* A turn that puts the key of the field whatever the converter made.
marshalFieldTurnUnguarded(m, i, v, vs, r) ==
    IF r.err.k # "none" THEN Values(<< >>, OtherError("entry"))
    ELSE marshalFieldsLoop(m, i + 1, v, Put(vs, m.Fields[i].Tag.Name, r.a))

\* One turn of the loop over p.Fields: r is what the entry converter made
\* of field i; a field that gives no string gets no key.
marshalFieldTurn(m, i, v, vs, r) ==
    IF r.err.k # "none" THEN Values(<< >>, OtherError("entry"))
    ELSE marshalFieldsLoop(m, i + 1, v,
            IF Len(r.a) # 0 THEN Put(vs, m.Fields[i].Tag.Name, r.a) ELSE vs)

\* The loop over p.Fields from index i on, then the loop over
\* p.EmbeddedFields.
marshalFieldsLoop(m, i, v, vs) ==
    IF i > Len(m.Fields) THEN marshalEmbeddedLoop(m, 1, v, vs)
    ELSE IF m.Fields[i].Tag.MarshalPresence = "OmitEmpty"
            /\ isEmpty(StructFields(m.Type)[m.Fields[i].FieldIndex].Type,
                       v[m.Fields[i].FieldIndex])
    THEN marshalFieldsLoop(m, i + 1, v, vs)
    ELSE marshalFieldTurn(m, i, v, vs,
                          Marshal(m.Fields[i].Conv, v[m.Fields[i].FieldIndex]))

\* One turn of the loop over p.EmbeddedFields: r is what the values
\* converter made of embedded field j.
marshalEmbeddedTurn(m, j, v, vs, r) ==
    IF r.err.k # "none" THEN Values(<< >>, OtherError("embedded field"))
    ELSE marshalEmbeddedLoop(m, j + 1, v, PutAll(vs, r.vs))

marshalEmbeddedLoop(m, j, v, vs) ==
    IF j > Len(m.EmbeddedFields) THEN Values(vs, NoError)
    ELSE marshalEmbeddedTurn(m, j, v, vs,
                             MarshalValues(m.EmbeddedFields[j].Conv,
                                           v[m.EmbeddedFields[j].FieldIndex]))

\* structMarshaler.MarshalValues
structMarshaler(m, v) == marshalFieldsLoop(m, 1, v, << >>)

\* ptrValuesMarshaler.MarshalValues
ptrValuesMarshaler(m, v) ==
    IF v.nil THEN Values(<< >>, NoError) ELSE MarshalValues(m.Elem, v.elem)

RECURSIVE mapMarshalLoop(_, _, _, _)

\* One turn of the loop of mapMarshaler.MarshalValues: r is what the
\* element converter made of the element under the key.
mapMarshalTurn(m, v, keys, vs, key, r) ==
    IF r.err.k # "none" THEN Values(<< >>, OtherError("key"))
    ELSE mapMarshalLoop(m, v, keys \ {key}, Put(vs, key, r.a))

\* A body of the loop that does not look at the presence.
mapMarshalKeyAlways(m, v, keys, vs, key) ==
    mapMarshalTurn(m, v, keys, vs, key, Marshal(m.Elem, v.m[key]))

\* The body of the loop for one key: the presence is the default the
\* pipeline has at the call.
mapMarshalKey(m, v, keys, vs, key) ==
    IF tagDefaults.M.Presence = "OmitEmpty" /\ isEmpty(Elem(m.Type), v.m[key])
    THEN mapMarshalLoop(m, v, keys \ {key}, vs)
    ELSE mapMarshalTurn(m, v, keys, vs, key, Marshal(m.Elem, v.m[key]))

\* for _, key := range v.MapKeys() over the keys not visited yet; a turn
\* puts its own key or ends the call, so the order does not show.
mapMarshalLoop(m, v, keys, vs) ==
    IF keys = {} THEN Values(vs, NoError)
    ELSE mapMarshalKey(m, v, keys, vs, CHOOSE key \in keys : TRUE)

\* mapMarshaler.MarshalValues: nothing for a map of length 0.
mapMarshaler(m, v) ==
    IF v.nil THEN Values(<< >>, NoError)
    ELSE IF DOMAIN v.m = {} THEN Values(<< >>, NoError)
    ELSE mapMarshalLoop(m, v, DOMAIN v.m, << >>)

\* ValuesMarshaler.MarshalValues of the converter m.
MarshalValues(m, v) ==
    CASE m.k = "struct" -> structMarshaler(m, v)
      [] m.k = "ptr" -> ptrValuesMarshaler(m, v)
      [] m.k = "map" -> mapMarshaler(m, v)

(***************************************************************************)
(* Marshaling one object: a pipeline made by NewMarshaler with a          *)
(* pipeline-wide marshal presence, and calls of its MarshalValues on the  *)
(* object.                                                                 *)
(***************************************************************************)
MarshalTypes == {"KeepRec", "OmitRec", "OptRec", "Outer", "Shadow", "Clash"}

\* The integers the fields of the marshaled objects hold.
Ints == {0, 21, -7}

\* The strings the fields of the marshaled objects hold.
Strs == {<< >>, <<"a">>}

\* The keys the marshaled maps have.
ElementKeys == {"a", "b"}

\* The values of type t, with slices of up to MaxSliceLen elements;
\* RecordsOf(t, n) are the values of the first n fields of the record t.
RECURSIVE ValuesOf(_)
RECURSIVE RecordsOf(_, _)
RecordsOf(t, n) ==
    IF n = 0 THEN {<< >>}
    ELSE {Append(s, x) : s \in RecordsOf(t, n - 1),
                         x \in ValuesOf(StructFields(t)[n].Type)}

ValuesOf(t) ==
    CASE Kind(t) = "Int" -> Ints
      [] Kind(t) = "Uint" -> {0, 21}
      [] Kind(t) = "String" -> Strs
      [] Kind(t) = "Bool" -> BOOLEAN
      [] Kind(t) = "Ptr" -> {NilPtr} \cup {PtrTo(v) : v \in ValuesOf(Elem(t))}
      [] Kind(t) = "Slice" ->
            {NilSlice} \cup {SliceOf(s) : s \in SeqsUpTo(ValuesOf(Elem(t)), MaxSliceLen)}
      [] Kind(t) = "Map" ->
            {NilMapValue} \cup
            UNION {{MapValueOf(f) : f \in [K -> ValuesOf(Elem(t))]} :
                     K \in SUBSET ElementKeys}
      [] Kind(t) = "Struct" -> RecordsOf(t, Len(StructFields(t)))

\* prepareMarshalOptions on the presence WithMarshalPresence has set.
MarshalDefaults(presence) ==
    [PlainDefaults EXCEPT
        !.M = InitDefaultsM([NewUndefinedMarshalTagOptions EXCEPT
                                !.Presence = presence])]

InitMar ==
    /\ InitPipelines
    /\ \E presence \in {"Unspecified", "OmitEmpty"} :
            tagDefaults = MarshalDefaults(presence)
    /\ procs = [p \in Procs |-> IdleProc]
    /\ hist = [early |-> << >>]
    /\ \E t \in MarshalTypes : \E v \in ValuesOf(t) : obj = [type |-> t, val |-> v]

\* The end of QSMarshaler.MarshalValues: r is the resolution of the
\* converter, m what the converter returned.
marshalled(r, m) ==
    /\ cache' = r.st.cache
    /\ calls' = r.st.calls
    /\ last' = [op |-> "MarshalValues", type |-> obj.type, val |-> obj.val,
                vs |-> m.vs, err |-> m.err]
    /\ UNCHANGED <<reg, nreg, tagDefaults, procs, hist, obj>>

\* QSMarshaler.MarshalValues after the resolution r of the converter.
marshalWith(r) ==
    IF r.res.kind = "err" THEN marshalled(r, Values(<< >>, r.res.desc))
    ELSE marshalled(r, MarshalValues(r.res.desc, obj.val))

\* QSMarshaler.MarshalValues(obj)
QSMarshalerMarshalValues == marshalWith(cacher("VM", obj.type, State))

NextMar == QSMarshalerMarshalValues

SpecMar == InitMar /\ [][NextMar]_vars

(***************************************************************************)
(* Properties of MarshalValues, stated on the last call: the type and the *)
(* value of the object, the url.Values and the error it returned.         *)
(***************************************************************************)
Marshalled == last.op = "MarshalValues"

\* The direct field converters of the record converter the last call ran.
MDirect == cache["VM"][last.type].desc.Fields

MKey(i) == MDirect[i].Tag.Name

MType(i) == StructFields(last.type)[MDirect[i].FieldIndex].Type

MValue(i) == last.val[MDirect[i].FieldIndex]

\* The value of the i-th direct field is empty: a zero, a nil pointer, a nil
\* or zero-length slice.
MEmpty(i) ==
    CASE Kind(MType(i)) = "Int" -> MValue(i) = 0
      [] Kind(MType(i)) = "Slice" ->
            IF MValue(i).nil THEN TRUE ELSE Len(MValue(i).elems) = 0
      [] OTHER -> MValue(i).nil

\* The marshaled record has no embedded record: no other field gives an
\* entry under the key of a field.
OwnKeys == Len(cache["VM"][last.type].desc.EmbeddedFields) = 0

\* C11 as stated: for each field of a marshaled record of distinct keys, with
\* omitempty and an empty value the result has no entry under the field's
\* key, and with keepempty the result always has an entry under it.
C11_AsStated ==
    (Marshalled /\ last.err.k = "none" /\ OwnKeys) =>
        \A i \in 1..Len(MDirect) :
            /\ (MDirect[i].Tag.MarshalPresence = "OmitEmpty"
                    /\ MEmpty(i)) => MKey(i) \notin DOMAIN last.vs
            /\ MDirect[i].Tag.MarshalPresence = "KeepEmpty" => MKey(i) \in DOMAIN last.vs

\* C11 amended, for each field of a marshaled record of distinct keys: with
\* omitempty and an empty value there is no entry; with
\* keepempty there is an entry exactly when the field's converter gives at
\* least one string: always for a scalar, zero included, and for a pointer
\* or a slice when it is not nil and not empty.
C11_Amended ==
    (Marshalled /\ last.err.k = "none" /\ OwnKeys) =>
        \A i \in 1..Len(MDirect) :
            /\ (MDirect[i].Tag.MarshalPresence = "OmitEmpty"
                    /\ MEmpty(i)) => MKey(i) \notin DOMAIN last.vs
            /\ MDirect[i].Tag.MarshalPresence = "KeepEmpty" =>
                    (MKey(i) \in DOMAIN last.vs)
                        = (Kind(MType(i)) = "Int" \/ ~MEmpty(i))

\* A KeepRec holding zero, a nil pointer and an empty slice was marshaled:
\* the zero has its entry, the pointer and the slice have none.
C11_Witness ==
    /\ Marshalled
    /\ last.type = "KeepRec"
    /\ last.val = <<0, NilPtr, SliceOf(<< >>)>>
    /\ DOMAIN last.vs = {"i"}
    /\ last.vs["i"] = << <<"0">> >>

\* The record types with embedded records; their entry fields are integers
\* with no presence in the tag.
EmbedTypes == {"Outer", "Shadow", "Clash"}

\* What the integer field holding n contributes: nothing for a zero under
\* omitempty, one pair of key and list otherwise.
IntPair(key, n) ==
    IF n = 0 /\ tagDefaults.M.Presence = "OmitEmpty" THEN << >>
    ELSE << <<key, <<FormatInt(n)>> >> >>

\* The pairs of key and list of the value v of type t: those of the direct
\* fields of the record as declared, then those of its embedded records as
\* declared, an embedded record giving the pairs of its own fields.
\* DirectPairs and EmbeddedPairs are those of the fields from the i-th on.
RECURSIVE PairsOf(_, _)
RECURSIVE DirectPairs(_, _, _)
RECURSIVE EmbeddedPairs(_, _, _)
PairsOf(t, v) ==
    IF Kind(t) = "Ptr" THEN (IF v.nil THEN << >> ELSE PairsOf(Elem(t), v.elem))
    ELSE DirectPairs(t, v, 1) \o EmbeddedPairs(t, v, 1)

DirectPairs(t, v, i) ==
    IF i > Len(StructFields(t)) THEN << >>
    ELSE IF StructFields(t)[i].Anonymous THEN DirectPairs(t, v, i + 1)
    ELSE IntPair(StructFields(t)[i].Tag[1], v[i]) \o DirectPairs(t, v, i + 1)

EmbeddedPairs(t, v, i) ==
    IF i > Len(StructFields(t)) THEN << >>
    ELSE IF StructFields(t)[i].Anonymous
         THEN PairsOf(StructFields(t)[i].Type, v[i]) \o EmbeddedPairs(t, v, i + 1)
         ELSE EmbeddedPairs(t, v, i + 1)

\* No pair after the n-th has the key of the n-th.
Winner(pairs, n) == \A k \in (n + 1)..Len(pairs) : pairs[k][1] # pairs[n][1]

\* C13: the result of marshaling a record with embedded records has exactly
\* the keys of the fields of the record and of its embedded records, none
\* for an embedded field and none with a prefix; under each key is the list
\* of the last field with this key, in the order direct fields, then
\* embedded records as declared.
C13_EmbeddedLast ==
    (Marshalled /\ last.type \in EmbedTypes) =>
        /\ last.err.k = "none"
        /\ DOMAIN last.vs
                = {PairsOf(last.type, last.val)[n][1] :
                        n \in 1..Len(PairsOf(last.type, last.val))}
        /\ \A n \in 1..Len(PairsOf(last.type, last.val)) :
                Winner(PairsOf(last.type, last.val), n) =>
                    last.vs[PairsOf(last.type, last.val)[n][1]]
                        = PairsOf(last.type, last.val)[n][2]

\* A Clash with N = 21, Inner.N = 21 and Late{N: 0, M: 21} was marshaled with
\* keepempty: under n is the zero of Late.
C13_Witness ==
    /\ Marshalled
    /\ last.type = "Clash"
    /\ last.val = <<21, <<21>>, <<0, 21>> >>
    /\ DOMAIN last.vs = {"n", "m"}
    /\ last.vs["n"] = << <<"0">> >>
    /\ last.vs["m"] = << <<"2", "1">> >>

(***************************************************************************)
(* One pipeline pair and one object that MarshalValues and                 *)
(* UnmarshalValues are both called on.                                     *)
(***************************************************************************)
ObjTypes == {"SkipRec"}

InitObj ==
    /\ InitPipelines
    /\ tagDefaults = PlainDefaults
    /\ procs = [p \in Procs |-> IdleProc]
    /\ hist = [early |-> << >>]
    /\ \E t \in ObjTypes : \E v \in ValuesOf(t) : obj = [type |-> t, val |-> v]

NextObj == NextUnm \/ NextMar

SpecObj == InitObj /\ [][NextObj]_vars

\* The fields of the record of the last call that are tagged "-" or are
\* unexported and not embedded.
SkippedFields ==
    {i \in 1..Len(StructFields(last.type)) :
        \/ StructFields(last.type)[i].Tag[1] = "-"
        \/ ~StructFields(last.type)[i].Exported /\ ~StructFields(last.type)[i].Anonymous}

\* The record converter of cache c for the type of the last call has a
\* field converter or an embedded converter for field i.
HasConverter(c, i) ==
    \/ \E n \in 1..Len(cache[c][last.type].desc.Fields) :
            cache[c][last.type].desc.Fields[n].FieldIndex = i
    \/ \E n \in 1..Len(cache[c][last.type].desc.EmbeddedFields) :
            cache[c][last.type].desc.EmbeddedFields[n].FieldIndex = i

\* C12: a field tagged "-", or unexported and not embedded, has no converter;
\* MarshalValues gives no entry under "-" or under the transformed name of
\* the field, and UnmarshalValues leaves the field as it was, whatever the
\* map holds under these keys.
C12_SkippedFields ==
    \A i \in (IF Marshalled \/ Unmarshalled THEN SkippedFields ELSE {}) :
        /\ (Marshalled /\ last.err.k = "none") =>
                /\ ~HasConverter("VM", i)
                /\ "-" \notin DOMAIN last.vs
                /\ snakeCase(StructFields(last.type)[i].Name) \notin DOMAIN last.vs
        /\ Unmarshalled =>
                /\ ~HasConverter("VU", i)
                /\ last.after[i] = last.before[i]

\* UnmarshalValues was given 21 under "-", "hidden" and "v" for a zero
\* SkipRec: only V is set; and a SkipRec of three 21s was marshaled to one
\* entry, that of V.
C12_Witness ==
    /\ Unmarshalled
    /\ last.type = "SkipRec"
    /\ DOMAIN last.vs = {"-", "hidden", "v"}
    /\ last.vs["-"] = ListOf(<< <<"2", "1">> >>)
    /\ last.before = <<0, 0, 0>>
    /\ last.after = <<0, 0, 21>>
    /\ last.err.k = "none"

(***************************************************************************)
(* Properties of the slice field of a SliceRec, stated on the last call.  *)
(***************************************************************************)
\* The call was given a list for the slice field of a SliceRec.
SliceGiven ==
    /\ Unmarshalled
    /\ last.type = "SliceRec"
    /\ "l" \in DOMAIN last.vs

SliceMode == tagDefaults.U.SliceValues

UnexpectedMode == tagDefaults.U.SliceUnexpectedValue

\* The separator character of the pipeline, "" for none.
SeparatorChar ==
    CASE tagDefaults.C.SliceSeparator = "Comma" -> ","
      [] tagDefaults.C.SliceSeparator = "Semicolon" -> ";"
      [] tagDefaults.C.SliceSeparator = "Space" -> " "
      [] OTHER -> ""

\* The positions that bound the pieces of s: before its first character,
\* those of the character c, after its last character.
Cuts(s, c) == {0, Len(s) + 1} \cup {i \in 1..Len(s) : s[i] = c}

\* The k-th of the cuts of s, counted from 0.
Cut(s, c, k) ==
    CHOOSE p \in Cuts(s, c) : Cardinality({q \in Cuts(s, c) : q < p}) = k

\* The pieces of s between the occurrences of c, in order.
Pieces(s, c) ==
    [k \in 1..(Cardinality(Cuts(s, c)) - 1) |->
        SubSeq(s, Cut(s, c, k - 1) + 1, Cut(s, c, k) - 1)]

\* The pieces of the strings of items from the i-th on, in input order.
RECURSIVE Stream(_, _, _)
Stream(items, c, i) ==
    IF i > Len(items) THEN << >>
    ELSE Pieces(items[i], c) \o Stream(items, c, i + 1)

\* The elements the call was given: the strings of the list, split at the
\* separator of the pipeline if it has one.
Given ==
    IF SeparatorChar = "" THEN last.vs["l"].items
    ELSE Stream(last.vs["l"].items, SeparatorChar, 1)

\* The string is a decimal number.
Converts(s) == Len(s) > 0 /\ \A i \in 1..Len(s) : DigitValue(s[i]) >= 0

\* The numbers of the decimal strings of g, in order.
Numbers(g) ==
    [n \in 1..Len(SelectSeq(g, Converts)) |-> ParseInt(SelectSeq(g, Converts)[n], 1, 0)]

\* The old elements the merge mode keeps.
Kept ==
    IF SliceMode = "KeepOld" /\ ~last.before[1].nil THEN last.before[1].elems
    ELSE << >>

\* C14: the slice was not nil before the call and every element given
\* converts: the call returns no error; under KeepOld the slice ends as its
\* old elements followed by the new ones, both in their order, under
\* OverrideOld as exactly the new ones.
C14_MergeModes ==
    (SliceGiven /\ ~last.before[1].nil /\ \A n \in 1..Len(Given) : Converts(Given[n])) =>
        /\ last.err.k = "none"
        /\ SliceMode = "KeepOld" =>
                last.after[1] = SliceOf(last.before[1].elems \o Numbers(Given))
        /\ SliceMode = "OverrideOld" => last.after[1] = SliceOf(Numbers(Given))

\* Under KeepOld and the comma, [8, 9] was given "1" and "2,3".
C14_Witness ==
    /\ SliceGiven
    /\ SliceMode = "KeepOld"
    /\ last.vs["l"] = ListOf(<< <<"1">>, <<"2", ",", "3">> >>)
    /\ last.before[1] = SliceOf(<<8, 9>>)
    /\ last.after[1] = SliceOf(<<8, 9, 1, 2, 3>>)

\* C15: the elements converted are the pieces of every string given, split
\* at the separator and taken in input order, and with no separator the
\* strings themselves: the call fails exactly if the mode is
\* BreakWithError and one of them does not convert, and a call that does
\* not fail leaves the numbers of those that convert after the kept ones.
C15_Separators ==
    SliceGiven =>
        /\ (last.err.k # "none")
                = (UnexpectedMode = "BreakWithError"
                    /\ \E n \in 1..Len(Given) : ~Converts(Given[n]))
        /\ last.err.k = "none" => last.after[1] = SliceOf(Kept \o Numbers(Given))

\* Under the comma "1" and "2,3" gave [1, 2, 3] to a nil slice.
C15_Witness ==
    /\ SliceGiven
    /\ tagDefaults.C.SliceSeparator = "Comma"
    /\ last.vs["l"] = ListOf(<< <<"1">>, <<"2", ",", "3">> >>)
    /\ last.before[1] = NilSlice
    /\ last.after[1] = SliceOf(<<1, 2, 3>>)
    /\ last.err.k = "none"

\* C16: one of the elements given does not convert.  Under BreakWithError
\* the call returns an error and the slice ends empty and not nil; under
\* Skip the call returns no error and the slice ends as the kept old
\* elements followed by the numbers of the elements that convert, in input
\* order.
C16_UnexpectedValue ==
    (SliceGiven /\ \E n \in 1..Len(Given) : ~Converts(Given[n])) =>
        /\ UnexpectedMode = "BreakWithError" =>
                /\ last.err.k # "none"
                /\ last.after[1] = SliceOf(<< >>)
        /\ UnexpectedMode = "Skip" =>
                /\ last.err.k = "none"
                /\ last.after[1] = SliceOf(Kept \o Numbers(Given))

\* Under Skip, KeepOld and the comma, [8, 9] was given "1", "x" and "2,3".
C16_Witness ==
    /\ SliceGiven
    /\ UnexpectedMode = "Skip"
    /\ SliceMode = "KeepOld"
    /\ last.vs["l"] = ListOf(<< <<"1">>, <<"x">>, <<"2", ",", "3">> >>)
    /\ tagDefaults.C.SliceSeparator = "Comma"
    /\ last.before[1] = SliceOf(<<8, 9>>)
    /\ last.after[1] = SliceOf(<<8, 9, 1, 2, 3>>)

(***************************************************************************)
(* CheckMarshalType and CheckUnmarshalType on the type of an object and   *)
(* on the type of a pointer to it, on pipelines with no registration.     *)
(***************************************************************************)
CheckBases ==
    {"int", "*int", "map[string]int", "map[string]chan", "map[int]int",
     "Inner", "Mid", "*Mid"}

InitCheck ==
    /\ InitPipelines
    /\ tagDefaults = PlainDefaults
    /\ procs = [p \in Procs |-> IdleProc]
    /\ hist = {}
    /\ \E t \in CheckBases : obj = [type |-> t]

\* fmt.Errorf("expected a pointer, got %v", t)
expectedPointer(t) ==
    Ret(Err([k |-> "ExpectedPointerError", Type |-> t], <<"check", t, 0>>), State)

\* The return of a check: the error of the resolution r, or nil.
checked(op, t, r) ==
    /\ cache' = r.st.cache
    /\ calls' = r.st.calls
    /\ last' = [op |-> op, t |-> t,
                outcome |-> IF r.res.kind = "err" THEN r.res.desc ELSE NoError]
    /\ hist' = hist \cup {last'}
    /\ UNCHANGED <<reg, nreg, tagDefaults, procs, obj>>

\* A CheckUnmarshalType that resolves the type it is given.
checkUnmarshalTypeAsGiven(t) ==
    checked("CheckUnmarshalType", t, cacher("VU", t, State))

\* QSUnmarshaler.CheckUnmarshalType
CheckUnmarshalType(t) ==
    IF Kind(t) # "Ptr" THEN checked("CheckUnmarshalType", t, expectedPointer(t))
    ELSE checked("CheckUnmarshalType", t, cacher("VU", Elem(t), State))

\* QSMarshaler.CheckMarshalType
CheckMarshalType(t) ==
    checked("CheckMarshalType", t,
            cacher("VM", IF Kind(t) = "Ptr" THEN Elem(t) ELSE t, State))

NextCheck ==
    \/ \E t \in {obj.type, PointerTo(obj.type)} : CheckMarshalType(t)
    \/ \E t \in {obj.type, PointerTo(obj.type)} : CheckUnmarshalType(t)

SpecCheck == InitCheck /\ [][NextCheck]_vars

\* A map type with string keys and integer elements, or a record type whose
\* fields are integers and embedded records of this sort.
RECURSIVE PartsResolve(_)
PartsResolve(t) ==
    CASE Kind(t) = "Map" -> Key(t) = "string" /\ Kind(Elem(t)) = "Int"
      [] Kind(t) = "Struct" ->
            /\ Len(StructFields(t)) > 0
            /\ \A i \in 1..Len(StructFields(t)) :
                    IF StructFields(t)[i].Anonymous
                    THEN PartsResolve(StructFields(t)[i].Type)
                    ELSE Kind(StructFields(t)[i].Type) = "Int"
      [] OTHER -> FALSE

UnhandledInt == [k |-> "UnhandledTypeError", Type |-> "int"]

\* C17 as stated: both checks return an unhandled type error for int, and
\* nil for a map or record type whose element or field types resolve.
C17_AsStated ==
    \A h \in hist :
        /\ h.t = "int" => h.outcome = UnhandledInt
        /\ PartsResolve(h.t) => h.outcome = NoError

\* C17 amended: CheckMarshalType returns the unhandled type error of int for
\* int and for a pointer to int, and nil for a map or record type whose
\* parts resolve and for a pointer to one; CheckUnmarshalType returns the
\* same for the pointers, and the "expected a pointer" error for int and for
\* the map and record types themselves.
C17_Amended ==
    \A h \in hist :
        /\ h.op = "CheckMarshalType" =>
                /\ h.t \in {"int", "*int"} => h.outcome = UnhandledInt
                /\ PartsResolve(h.t) => h.outcome = NoError
                /\ (Kind(h.t) = "Ptr" /\ PartsResolve(Elem(h.t))) => h.outcome = NoError
        /\ h.op = "CheckUnmarshalType" =>
                /\ h.t = "*int" => h.outcome = UnhandledInt
                /\ (Kind(h.t) = "Ptr" /\ PartsResolve(Elem(h.t))) => h.outcome = NoError
                /\ (h.t = "int" \/ PartsResolve(h.t)) =>
                        h.outcome.k = "ExpectedPointerError"

\* Both checks have been made on int and on *int.
C17_Witness ==
    /\ obj.type = "int"
    /\ [op |-> "CheckMarshalType", t |-> "int", outcome |-> UnhandledInt] \in hist
    /\ [op |-> "CheckUnmarshalType", t |-> "*int", outcome |-> UnhandledInt] \in hist
    /\ [op |-> "CheckUnmarshalType", t |-> "int",
        outcome |-> [k |-> "ExpectedPointerError", Type |-> "int"]] \in hist

\* C18: CheckUnmarshalType returns the "expected a pointer" error for every
\* type that is not a pointer, and for a pointer what the resolution of the
\* pointee returns; CheckMarshalType returns the same for a type and for the
\* pointer to it: nil for map[string]int, the unhandled type error of int
\* for int.
C18_PointerRules ==
    /\ \A h \in hist :
        /\ (h.op = "CheckUnmarshalType" /\ Kind(h.t) # "Ptr") =>
                h.outcome = [k |-> "ExpectedPointerError", Type |-> h.t]
        /\ (h.op = "CheckUnmarshalType" /\ Kind(h.t) = "Ptr") =>
                h.outcome = (IF ResolveOutcome("VU", Elem(h.t)).kind = "err"
                             THEN ResolveOutcome("VU", Elem(h.t)).desc ELSE NoError)
        /\ (h.op = "CheckMarshalType" /\ h.t = "map[string]int") => h.outcome = NoError
        /\ (h.op = "CheckMarshalType" /\ h.t = "int") => h.outcome = UnhandledInt
    /\ \A h1, h2 \in hist :
        (h1.op = "CheckMarshalType" /\ h2.op = "CheckMarshalType"
            /\ Kind(h2.t) = "Ptr" /\ Elem(h2.t) = h1.t) => h1.outcome = h2.outcome

\* All four checks have been made on map[string]int and its pointer.
C18_Witness ==
    /\ obj.type = "map[string]int"
    /\ Cardinality(hist) = 4
    /\ [op |-> "CheckUnmarshalType", t |-> "map[string]int",
        outcome |-> [k |-> "ExpectedPointerError", Type |-> "map[string]int"]] \in hist
    /\ [op |-> "CheckUnmarshalType", t |-> "*map[string]int", outcome |-> NoError] \in hist

(***************************************************************************)
(* The round trip: MarshalValues on an object x, then UnmarshalValues of  *)
(* the result into a zero-valued record of the type of x, on pipelines    *)
(* with default options.                                                   *)
(***************************************************************************)
TripTypes == {"Scalars", "SkipRec", "DupRec"}

InitTrip ==
    /\ InitPipelines
    /\ tagDefaults = PlainDefaults
    /\ procs = [p \in Procs |-> IdleProc]
    /\ hist = [early |-> << >>]
    /\ \E t \in TripTypes : \E v \in ValuesOf(t) : obj = [type |-> t, val |-> v]

\* The return of UnmarshalValues(&y, vs) for a new y: r is the resolution
\* of the converter, u what the converter did.
tripped(r, u) ==
    /\ cache' = r.st.cache
    /\ calls' = r.st.calls
    /\ last' = [op |-> "RoundTrip", type |-> obj.type, val |-> obj.val,
                vs |-> last.vs, after |-> u.val, err |-> u.err]
    /\ UNCHANGED <<reg, nreg, tagDefaults, procs, hist, obj>>

tripWith(r) ==
    IF r.res.kind = "err"
    THEN tripped(r, Ran(Zero(obj.type), OtherError("converter"), << >>))
    ELSE tripped(r, UnmarshalValues(r.res.desc, Zero(obj.type),
                                    [k \in DOMAIN last.vs |-> ListOf(last.vs[k])]))

\* var y T; QSUnmarshaler.UnmarshalValues(&y, vs) on the vs MarshalValues
\* has returned
UnmarshalIntoZero ==
    /\ last.op = "MarshalValues"
    /\ last.err.k = "none"
    /\ tripWith(cacher("VU", obj.type, State))

NextTrip == QSMarshalerMarshalValues \/ UnmarshalIntoZero

SpecTrip == InitTrip /\ [][NextTrip]_vars

\* C19 as stated: the round trip of a record of scalar fields returns no
\* error and gives a record equal to the one marshaled.
C19_AsStated ==
    last.op = "RoundTrip" => (last.err.k = "none" /\ last.after = last.val)

\* Every field of the record type is exported, none is tagged "-" and no
\* two have the same key.
AllFieldsEncoded(t) ==
    /\ \A i \in 1..Len(StructFields(t)) :
            StructFields(t)[i].Exported /\ StructFields(t)[i].Tag[1] \notin {"-", ""}
    /\ \A i, j \in 1..Len(StructFields(t)) :
            i # j => StructFields(t)[i].Tag[1] # StructFields(t)[j].Tag[1]

\* C19 amended: the round trip of a record of scalar fields that are all
\* exported, not tagged "-" and of distinct keys returns no error and gives
\* a record equal to the one marshaled.
C19_Amended ==
    (last.op = "RoundTrip" /\ AllFieldsEncoded(last.type)) =>
        (last.err.k = "none" /\ last.after = last.val)

\* A Scalars of a string, a zero bool, a negative integer and a zero
\* unsigned integer has gone round.
C19_Witness ==
    /\ last.op = "RoundTrip"
    /\ last.type = "Scalars"
    /\ last.val = << <<"a">>, FALSE, -7, 0 >>
    /\ DOMAIN last.vs = {"s", "b", "i", "u"}
    /\ last.vs["i"] = << <<"-", "7">> >>
    /\ last.after = last.val

(***************************************************************************)
(* The parsing of the qs struct tag.                                      *)
(***************************************************************************)
\* The options of the parsed tags: words of the five groups, a word of no
\* group and the empty option a surplus comma leaves.
TagOptions ==
    {"opt", "req", "keepempty", "omitempty", "keepold", "overrideold", "skip",
     "breakwitherror", "comma", "space", "bogus", ""}

\* The name segment of the parsed tags: empty, the skip mark or a literal.
TagNames == {"", "-", "n"}

\* A tag with up to MaxTagLen options after the name.
InitTag ==
    /\ InitPipelines
    /\ tagDefaults = PlainDefaults
    /\ procs = [p \in Procs |-> IdleProc]
    /\ hist = [early |-> << >>]
    /\ \E name \in TagNames, options \in SeqsUpTo(TagOptions, MaxTagLen) :
            obj = [type |-> "StructTag", val |-> <<name>> \o options]

\* parseFieldTag on the tag of the state.
ParseFieldTag ==
    /\ last.op = "none"
    /\ last' = [op |-> "parseFieldTag",
                tag |-> parseFieldTag(obj.val, tagDefaults.M, tagDefaults.U,
                                      tagDefaults.C)]
    /\ UNCHANGED <<cache, calls, reg, nreg, tagDefaults, procs, hist, obj>>

NextTag == ParseFieldTag

SpecTag == InitTag /\ [][NextTag]_vars

\* The group of an option word, "none" for a word of no group.
TagCategory(option) ==
    CASE option \in {"nil", "opt", "req"} -> "UnmarshalPresence"
      [] option \in {"keepempty", "omitempty"} -> "MarshalPresence"
      [] option \in {"keepold", "overrideold"} -> "SliceValues"
      [] option \in {"skip", "breakwitherror"} -> "SliceUnexpectedValue"
      [] option \in {"none", "comma", "semicolon", "space"} -> "SliceSeparator"
      [] OTHER -> "none"

TagCategories ==
    {"UnmarshalPresence", "MarshalPresence", "SliceValues",
     "SliceUnexpectedValue", "SliceSeparator"}

\* The value an option word stands for.
OptionValue(option) ==
    CASE option = "nil" -> "Nil" [] option = "opt" -> "Opt"
      [] option = "req" -> "Req" [] option = "keepempty" -> "KeepEmpty"
      [] option = "omitempty" -> "OmitEmpty" [] option = "keepold" -> "KeepOld"
      [] option = "overrideold" -> "OverrideOld" [] option = "skip" -> "Skip"
      [] option = "breakwitherror" -> "BreakWithError"
      [] option = "none" -> "None" [] option = "comma" -> "Comma"
      [] option = "semicolon" -> "Semicolon" [] option = "space" -> "Space"

\* The value of a group when the tag has no word of it.
CategoryDefault(category) ==
    CASE category = "UnmarshalPresence" -> "Opt"
      [] category = "MarshalPresence" -> "KeepEmpty"
      [] category = "SliceValues" -> "OverrideOld"
      [] category = "SliceUnexpectedValue" -> "BreakWithError"
      [] category = "SliceSeparator" -> "None"

\* The value the parsed tag holds for a group.
Recorded(tag, category) ==
    CASE category = "UnmarshalPresence" -> tag.UnmarshalOpts.Presence
      [] category = "MarshalPresence" -> tag.MarshalPresence
      [] category = "SliceValues" -> tag.UnmarshalOpts.SliceValues
      [] category = "SliceUnexpectedValue" -> tag.UnmarshalOpts.SliceUnexpectedValue
      [] category = "SliceSeparator" -> tag.CommonOpts.SliceSeparator

TagParsed == last.op = "parseFieldTag"

TagOpts == Tail(obj.val)

SurplusComma == \E j \in DOMAIN TagOpts : TagOpts[j] = ""

\* Option j is the second word of its group.
Repeats(j) ==
    /\ TagCategory(TagOpts[j]) # "none"
    /\ \E i \in 1..(j - 1) : TagCategory(TagOpts[i]) = TagCategory(TagOpts[j])

\* Option j is a word of no group, or the second word of its group.
Defect(j) == TagCategory(TagOpts[j]) = "none" \/ Repeats(j)

FirstDefect == CHOOSE j \in DOMAIN TagOpts : Defect(j) /\ \A i \in 1..(j - 1) : ~Defect(i)

\* The tag holds, for every group, the value of the word of the group, or
\* the default when there is no such word.
OneValueEach(tag) ==
    \A category \in TagCategories :
        IF \E j \in DOMAIN TagOpts : TagCategory(TagOpts[j]) = category
        THEN \E j \in DOMAIN TagOpts :
                /\ TagCategory(TagOpts[j]) = category
                /\ Recorded(tag, category) = OptionValue(TagOpts[j])
        ELSE Recorded(tag, category) = CategoryDefault(category)

\* C20 as stated: a tag (without empty options) that holds two words of one
\* group fails with the "only one ... option is allwed" error whatever the
\* other words are, and a tag that parses holds one value for each group.
C20_AsStated ==
    (TagParsed /\ ~SurplusComma) =>
        /\ (\E j \in DOMAIN TagOpts : Repeats(j)) =>
                (last.tag.err /\ last.tag.why = "not unique")
        /\ ~last.tag.err => OneValueEach(last.tag)

\* C20 amended: parseFieldTag fails with the surplus comma error when an
\* option is empty; otherwise with the error of the first option that is a
\* word of no group (invalid option) or the second word of its group (the
\* "only one ... option is allwed" error), so two words of one group give
\* the duplicate error when every option before the second of them is a
\* valid one; a tag without such an option parses and holds, for each
\* group, the value of its one word or the default.
C20_Amended ==
    TagParsed =>
        IF SurplusComma
        THEN last.tag.err /\ last.tag.why = "surplus comma"
        ELSE IF \E j \in DOMAIN TagOpts : Defect(j)
        THEN /\ last.tag.err
             /\ last.tag.why = IF Repeats(FirstDefect) THEN "not unique"
                               ELSE "invalid option"
        ELSE ~last.tag.err /\ OneValueEach(last.tag)

\* The tag n,opt,comma,req was parsed and gave the duplicate option error.
C20_Witness ==
    /\ TagParsed
    /\ obj.val = <<"n", "opt", "comma", "req">>
    /\ last.tag.err
    /\ last.tag.why = "not unique"

\* C21: a tag with an empty option after the name fails with the surplus
\* comma error, whatever the name is and whatever the other options are,
\* words of no group included.
C21_SurplusComma ==
    (TagParsed /\ SurplusComma) =>
        (last.tag.err /\ last.tag.why = "surplus comma")

\* The tag -,bogus, (a trailing comma after a word of no group, behind the
\* skip mark) was parsed and gave the surplus comma error.
C21_Witness ==
    /\ TagParsed
    /\ obj.val = <<"-", "bogus", "">>
    /\ last.tag.err
    /\ last.tag.why = "surplus comma"

(***************************************************************************)
(* The defaults of a pipeline and the tags parsed for its fields.         *)
(***************************************************************************)
\* One word for each option group.
DefaultTokens == {"req", "omitempty", "keepold", "skip", "comma"}

DefaultNames == {"", "n"}

\* The values handed to the option appliers: one that differs from the
\* hardcoded fallback, and the unspecified value of the enum.
ApplierValues(category) ==
    CASE category = "UnmarshalPresence" -> {"Nil", "Unspecified"}
      [] category = "MarshalPresence" -> {"OmitEmpty", "Unspecified"}
      [] category = "SliceValues" -> {"KeepOld", "Unspecified"}
      [] category = "SliceUnexpectedValue" -> {"Skip", "Unspecified"}
      [] category = "SliceSeparator" -> {"Semicolon", "Unspecified"}

\* NewMarshaler or NewUnmarshaler on empty options: obj.pipeline tells
\* which of the two, hist.applied what the option appliers have set.
InitOptions ==
    /\ InitPipelines
    /\ tagDefaults = PlainDefaults
    /\ procs = [p \in Procs |-> IdleProc]
    /\ hist = [applied |-> [category \in TagCategories |-> "unset"]]
    /\ \E pipeline \in {"M", "U"}, name \in DefaultNames,
          options \in SeqsUpTo(DefaultTokens, MaxTagLen) :
            obj = [type |-> "StructTag", val |-> <<name>> \o options,
                   pipeline |-> pipeline]

\* An option applier that also empties the caches of the pipelines.
appliedAndForgotten(category, defaults) ==
    /\ tagDefaults' = defaults
    /\ hist' = [hist EXCEPT !.applied[category] = "set"]
    /\ cache' = [c \in Caches |-> [t \in Types |-> NoEntry]]
    /\ UNCHANGED <<calls, reg, nreg, procs, obj, last>>

\* An option applier: the assignment to a field of the defaults of the
\* pipeline, noted in hist.applied.
applied(category, defaults) ==
    /\ tagDefaults' = defaults
    /\ hist' = [hist EXCEPT !.applied[category] = Recorded(
                    [MarshalPresence |-> defaults.M.Presence,
                     UnmarshalOpts |-> defaults.U, CommonOpts |-> defaults.C],
                    category)]
    /\ UNCHANGED <<cache, calls, reg, nreg, procs, obj, last>>

WithUnmarshalPresence(value) ==
    applied("UnmarshalPresence", [tagDefaults EXCEPT !.U.Presence = value])

WithUnmarshalSliceValues(value) ==
    applied("SliceValues", [tagDefaults EXCEPT !.U.SliceValues = value])

WithUnmarshalSliceUnexpectedValue(value) ==
    applied("SliceUnexpectedValue",
            [tagDefaults EXCEPT !.U.SliceUnexpectedValue = value])

WithUnmarshalOptionSliceSeparator(value) ==
    applied("SliceSeparator", [tagDefaults EXCEPT !.C.SliceSeparator = value])

WithMarshalPresence(presence) ==
    applied("MarshalPresence", [tagDefaults EXCEPT !.M.Presence = presence])

WithMarshalOptionSliceSeparator(value) ==
    applied("SliceSeparator", [tagDefaults EXCEPT !.C.SliceSeparator = value])

\* The parseFieldTag call of getStructFieldInfo with the defaults that
\* newFieldUnmarshaler and newFieldMarshaler hand over.
ParseInPipeline ==
    /\ last.op = "none"
    /\ last' = [op |-> "parseFieldTag",
                tag |-> parseFieldTag(obj.val,
                    IF obj.pipeline = "M" THEN tagDefaults.M
                    ELSE NewUndefinedMarshalTagOptions,
                    IF obj.pipeline = "U" THEN tagDefaults.U
                    ELSE NewUndefinedUnmarshalTagOptions,
                    tagDefaults.C)]
    /\ UNCHANGED <<cache, calls, reg, nreg, tagDefaults, procs, hist, obj>>

\* The option appliers of the pipeline run in its constructor, before the
\* tag of a field is parsed.
UnmarshalAppliers ==
    /\ obj.pipeline = "U"
    /\ last.op = "none"
    /\ \/ \E value \in ApplierValues("UnmarshalPresence") : WithUnmarshalPresence(value)
       \/ \E value \in ApplierValues("SliceValues") : WithUnmarshalSliceValues(value)
       \/ \E value \in ApplierValues("SliceUnexpectedValue") :
                WithUnmarshalSliceUnexpectedValue(value)
       \/ \E value \in ApplierValues("SliceSeparator") :
                WithUnmarshalOptionSliceSeparator(value)

MarshalAppliers ==
    /\ obj.pipeline = "M"
    /\ last.op = "none"
    /\ \/ \E presence \in ApplierValues("MarshalPresence") :
                WithMarshalPresence(presence)
       \/ \E value \in ApplierValues("SliceSeparator") :
                WithMarshalOptionSliceSeparator(value)

NextOptions == UnmarshalAppliers \/ MarshalAppliers \/ ParseInPipeline

SpecOptions == InitOptions /\ [][NextOptions]_vars

\* The option groups a pipeline has defaults for.
OwnCategories(pipeline) ==
    IF pipeline = "M" THEN {"MarshalPresence", "SliceSeparator"}
    ELSE {"UnmarshalPresence", "SliceValues", "SliceUnexpectedValue", "SliceSeparator"}

\* The tag holds the value of the word of the group when the tag has one.
TokenKept(tag, category) ==
    \A j \in DOMAIN TagOpts :
        TagCategory(TagOpts[j]) = category =>
            Recorded(tag, category) = OptionValue(TagOpts[j])

NoToken(category) == \A j \in DOMAIN TagOpts : TagCategory(TagOpts[j]) # category

\* C22 as stated: the value of every group is the word given, otherwise
\* the default of the pipeline, otherwise the hardcoded fallback; the name
\* is the first segment.
C22_AsStated ==
    (TagParsed /\ ~last.tag.err) =>
        /\ last.tag.Name = obj.val[1]
        /\ \A category \in TagCategories :
            /\ TokenKept(last.tag, category)
            /\ NoToken(category) =>
                Recorded(last.tag, category) =
                    IF category \in OwnCategories(obj.pipeline)
                       /\ hist.applied[category] \notin {"unset", "Unspecified"}
                    THEN hist.applied[category]
                    ELSE CategoryDefault(category)

\* C22 amended: the value of every group is the word given; without a word
\* it is, for the groups of the pipeline's own direction and the separator,
\* the value an option applier has stored (as given, the unspecified value
\* included) or else the hardcoded fallback, and for the groups of the other
\* direction the unspecified value; the name is the first segment.
C22_Amended ==
    (TagParsed /\ ~last.tag.err) =>
        /\ last.tag.Name = obj.val[1]
        /\ \A category \in TagCategories :
            /\ TokenKept(last.tag, category)
            /\ NoToken(category) =>
                Recorded(last.tag, category) =
                    IF category \notin OwnCategories(obj.pipeline) THEN "Unspecified"
                    ELSE IF hist.applied[category] # "unset"
                    THEN hist.applied[category]
                    ELSE CategoryDefault(category)

\* The unmarshal pipeline, with the presence default set to nil and the
\* slice default to keep old, parsed the tag n,req,comma: the tag holds the
\* words req and comma, the slice default, the fallback for the unexpected
\* value and no marshal presence.
C22_Witness ==
    /\ TagParsed
    /\ obj.pipeline = "U"
    /\ obj.val = <<"n", "req", "comma">>
    /\ hist.applied["UnmarshalPresence"] = "Nil"
    /\ hist.applied["SliceValues"] = "KeepOld"
    /\ hist.applied["SliceUnexpectedValue"] = "unset"
    /\ last.tag.UnmarshalOpts.Presence = "Req"
    /\ last.tag.UnmarshalOpts.SliceValues = "KeepOld"
    /\ last.tag.UnmarshalOpts.SliceUnexpectedValue = "BreakWithError"
    /\ last.tag.CommonOpts.SliceSeparator = "Comma"
    /\ last.tag.MarshalPresence = "Unspecified"

(***************************************************************************)
(* The state of the pipelines that outlives a call: the caches, the       *)
(* registries of the factories and the defaults of the tag options.  The  *)
(* operations run one after the other, in any order, on one object.       *)
(***************************************************************************)
SharedTypes == {"Late"}

\* The url.Values of the calls: no key, and the key n with a number.
SharedInputs == {<< >>, [k \in {"n"} |-> ListOf(<< <<"2", "1">> >>)]}

InitShared ==
    /\ InitPipelines
    /\ tagDefaults = PlainDefaults
    /\ procs = [p \in Procs |-> IdleProc]
    /\ hist = [early |-> [c \in {"M", "U"} |-> [t \in Types |-> ""]],
               applied |-> [category \in TagCategories |-> "unset"]]
    /\ \E t \in SharedTypes : obj = [type |-> t, val |-> Zero(t)]

NextShared ==
    \/ \E vs \in SharedInputs : QSUnmarshalerUnmarshalValues(vs)
    \/ QSMarshalerMarshalValues
    \/ \E k \in RegKinds, fn \in Fns : marshalerRegisterKindOverride(k, fn)
    \/ \E k \in RegKinds, fn \in Fns : valuesMarshalerRegisterSubFactory(k, fn)
    \/ WithUnmarshalPresence("Nil")
    \/ WithMarshalPresence("OmitEmpty")

SpecShared == InitShared /\ [][NextShared]_vars

C23_Step ==
    /\ cache' # cache =>
            /\ last'.op \in {"MarshalValues", "UnmarshalValues"}
            /\ reg' = reg /\ tagDefaults' = tagDefaults /\ nreg' = nreg
    /\ reg' # reg =>
            /\ last'.op \in {"RegisterKindOverride", "RegisterSubFactory"}
            /\ nreg' = nreg + 1
            /\ cache' = cache /\ tagDefaults' = tagDefaults
    /\ tagDefaults' # tagDefaults =>
            /\ hist'.applied # hist.applied
            /\ cache' = cache /\ reg' = reg /\ last' = last

MapKeys == {"a", "b"}

\* The maps the target holds before the first call.
OldMaps ==
    {NilMapValue, MakeMap, MapValueOf([k \in {"a"} |-> 8]),
     MapValueOf([k \in {"a", "b"} |-> IF k = "a" THEN 8 ELSE 9])}

\* The url.Values of the calls.
MapInputs == UNION {[K -> Lists] : K \in SUBSET MapKeys}

\* The orders in which a range may visit the keys of vs.
RangeOrders(vs) ==
    {order \in [1..Cardinality(DOMAIN vs) -> DOMAIN vs] :
        \A i, j \in DOMAIN order : i # j => order[i] # order[j]}

InitMap ==
    /\ InitPipelines
    /\ tagDefaults = PlainDefaults
    /\ procs = [p \in Procs |-> IdleProc]
    /\ hist = [early |-> << >>]
    /\ \E old \in OldMaps : obj = [type |-> "map[string]int", val |-> old]

\* QSUnmarshaler.UnmarshalValues after the resolution r of the converter
\* of a map type.
unmarshalMapWith(vs, order, r) ==
    IF r.res.kind = "err"
    THEN unmarshalled(vs, r, Ran(obj.val, OtherError("converter"), << >>))
    ELSE unmarshalled(vs, r, mapUnmarshaler(r.res.desc, obj.val, vs, order))

\* QSUnmarshaler.UnmarshalValues(&obj, vs) on a map, whose loop visits the
\* keys of vs in the given order.
QSUnmarshalerUnmarshalValuesMap(vs, order) ==
    /\ Kind(obj.type) = "Map"
    /\ unmarshalMapWith(vs, order, cacher("VU", obj.type, State))

NextMap ==
    \E vs \in MapInputs : \E order \in RangeOrders(vs) :
        QSUnmarshalerUnmarshalValuesMap(vs, order)

SpecMap == InitMap /\ [][NextMap]_vars

MapUnmarshalled ==
    /\ last.op = "UnmarshalValues"
    /\ Kind(last.type) = "Map"
    /\ last.err.k = "none"

\* The integer a list was converted to by a call that succeeded: zero for
\* the nil list, the number 21 of the one string otherwise.
MapConverted(a) == IF a.nil THEN 0 ELSE 21

KeysBefore == IF last.before.nil THEN {} ELSE DOMAIN last.before.m

\* C24 as stated: after a successful call the map holds one entry for each
\* key of the input, with the converted value, and no other entry.
C24_AsStated ==
    MapUnmarshalled =>
        /\ ~last.after.nil
        /\ DOMAIN last.after.m = DOMAIN last.vs
        /\ \A k \in DOMAIN last.vs : last.after.m[k] = MapConverted(last.vs[k])

\* C24 amended: after a successful call the map is not nil and holds, for
\* each key of the input, the converted value, and for each key it held
\* before that is not a key of the input, the entry it held before.
C24_Amended ==
    MapUnmarshalled =>
        /\ ~last.after.nil
        /\ DOMAIN last.after.m = DOMAIN last.vs \cup KeysBefore
        /\ \A k \in DOMAIN last.vs : last.after.m[k] = MapConverted(last.vs[k])
        /\ \A k \in KeysBefore \ DOMAIN last.vs : last.after.m[k] = last.before.m[k]

\* A call with the key a on a map that held a and b overwrote a and kept b.
C24_Witness ==
    /\ MapUnmarshalled
    /\ DOMAIN last.vs = {"a"}
    /\ ~last.before.nil
    /\ DOMAIN last.before.m = {"a", "b"}
    /\ last.before.m["a"] = 8
    /\ last.after.m["a"] = 21
    /\ last.after.m["b"] = 9

(***************************************************************************)
(* Kind overrides on the marshal pipeline.                                 *)
(***************************************************************************)
\* The kinds a function is registered for and the types resolved.
OverrideKinds == {"Int", "Ptr", "Slice"}

OverrideTypes == {"int", "Celsius", "*int", "[]int", "Own"}

NextKinds ==
    \/ \E t \in OverrideTypes : Resolve("M", t)
    \/ \E k \in OverrideKinds, fn \in Fns : marshalerRegisterKindOverride(k, fn)
    \/ \E k \in OverrideKinds, fn \in Fns : marshalerRegisterSubFactory(k, fn)
    \/ \E t \in {"Celsius"}, fn \in Fns : marshalerRegisterCustomType(t, fn)

SpecKinds == InitReg /\ [][NextKinds]_vars

\* The last step was the first resolution, on the marshal pipeline, of a
\* type without an exact-type registration and without MarshalQS, whose
\* kind has an override and no registered sub-factory.
FirstUseWithOverride ==
    /\ last.op = "Resolve"
    /\ last.c = "M"
    /\ last.first
    /\ ~Has(reg.M.typesOverriden, last.t)
    /\ last.t \notin DOMAIN reg.M.types
    /\ ~ImplementsMarshalQS(last.t)
    /\ Has(reg.M.kindsOverriden, Kind(last.t))
    /\ ~Has(reg.M.kindSubRegistriesOverriden, Kind(last.t))

\* C25 as stated: such a type resolves to the converter that wraps the
\* registered function, for the primitive kinds and for the pointer and
\* slice kinds.
C25_AsStated ==
    FirstUseWithOverride => last.res = reg.M.kindsOverriden.m[Kind(last.t)]

\* C25 amended: such a type resolves to the converter that wraps the
\* registered function when its kind is a primitive one; for the pointer
\* and slice kinds, which have a builtin sub-factory, the override is not
\* consulted and the type resolves to the converter of the sub-factory.
C25_Amended ==
    FirstUseWithOverride =>
        IF Kind(last.t) \in {"Ptr", "Slice"}
        THEN /\ last.res # reg.M.kindsOverriden.m[Kind(last.t)]
             /\ last.res.kind = "conv"
             /\ last.res.desc.k = IF Kind(last.t) = "Ptr" THEN "ptr" ELSE "slice"
        ELSE last.res = reg.M.kindsOverriden.m[Kind(last.t)]

\* Celsius, of kind int, was resolved for the first time after a function
\* was registered for the kind, and got the converter that wraps it.
C25_Witness ==
    /\ FirstUseWithOverride
    /\ last.t = "Celsius"
    /\ last.res.kind = "conv"
    /\ last.res.desc = [k |-> "prim", fn |-> "fnA"]

(***************************************************************************)
(* Unmarshaling into a record whose pointer field the caller shares: the   *)
(* objects pointers point to live at addresses, the field Q of an OptRec   *)
(* holds an address or nil, and the caller keeps the address Q held at     *)
(* first.                                                                  *)
(***************************************************************************)
Addrs == {1, 2}

NoAddr == 0

FreeCell == [used |-> FALSE, val |-> 0]

CellOf(val) == [used |-> TRUE, val |-> val]

\* reflect.New: an address no object lives at.
New(mem) == CHOOSE a \in Addrs : ~mem.heap[a].used /\ \A b \in Addrs : b < a => mem.heap[b].used

\* The pointer the field holds, by value: v.IsNil() and v.Elem().
Pointer(mem) ==
    IF mem.field = NoAddr THEN NilPtr ELSE PtrTo(mem.heap[mem.field].val)

\* A ptrUnmarshaler.Unmarshal that always sets v to a new object.
ptrSetAlways(mem, fv) ==
    IF fv.nil THEN mem
    ELSE [mem EXCEPT !.field = New(mem), !.heap[New(mem)] = CellOf(fv.elem)]

\* The writes of ptrUnmarshaler.Unmarshal: a nil v is set to a new object,
\* and the element converter writes into the object v points to; fv is
\* the pointer by value after the call.
ptrSet(mem, fv) ==
    IF fv.nil THEN mem
    ELSE IF mem.field = NoAddr
    THEN [mem EXCEPT !.field = New(mem), !.heap[New(mem)] = CellOf(fv.elem)]
    ELSE [mem EXCEPT !.heap[mem.field] = CellOf(fv.elem)]

\* The values the object Q points to may hold before the first call.
OldPointees == {0, 8}

InitPtr ==
    /\ InitPipelines
    /\ tagDefaults = PlainDefaults
    /\ procs = [p \in Procs |-> IdleProc]
    /\ obj = [type |-> "OptRec", val |-> Zero("OptRec")]
    /\ \/ hist = [heap |-> [a \in Addrs |-> FreeCell], field |-> NoAddr]
       \/ \E old \in OldPointees :
            hist = [heap |-> [a \in Addrs |-> IF a = 1 THEN CellOf(old) ELSE FreeCell],
                    field |-> 1]

\* The end of QSUnmarshaler.UnmarshalValues on the shared record: what the
\* field Q points to is kept in hist, obj holds the other fields.
unmarshalledShared(vs, r, u) ==
    /\ Bounded(obj.type, u.val)
    /\ obj' = [obj EXCEPT !.val = [u.val EXCEPT ![1] = NilPtr]]
    /\ hist' = ptrSet(hist, u.val[1])
    /\ cache' = r.st.cache
    /\ calls' = r.st.calls
    /\ last' = [op |-> "UnmarshalValues", type |-> obj.type, vs |-> vs,
                mem |-> hist, err |-> u.err, log |-> u.log]
    /\ UNCHANGED <<reg, nreg, tagDefaults, procs>>

unmarshalSharedWith(vs, r) ==
    IF r.res.kind = "err"
    THEN unmarshalledShared(vs, r, Ran(obj.val, OtherError("converter"), << >>))
    ELSE unmarshalledShared(vs, r,
            UnmarshalValues(r.res.desc, [obj.val EXCEPT ![1] = Pointer(hist)], vs))

\* QSUnmarshaler.UnmarshalValues(&obj, vs) on the shared record.
QSUnmarshalerUnmarshalValuesShared(vs) ==
    unmarshalSharedWith(vs, cacher("VU", obj.type, State))

NextPtr == \E vs \in ValuesFor("OptRec") : QSUnmarshalerUnmarshalValuesShared(vs)

SpecPtr == InitPtr /\ [][NextPtr]_vars

\* The last call was given data under the key q of the pointer field.
PointerKeyWithData ==
    /\ last.op = "UnmarshalValues"
    /\ "q" \in DOMAIN last.vs
    /\ ~last.vs["q"].nil
    /\ Len(last.vs["q"].items) = 1

\* The objects that lived before the last call are as they were.
OldObjectsKept ==
    \A a \in Addrs : last.mem.heap[a].used => hist.heap[a] = last.mem.heap[a]

\* The field points to an object made by the last call.
PointsToNew == hist.field # NoAddr /\ ~last.mem.heap[hist.field].used

\* C26 as stated: when the key of a pointer field is present with data,
\* the object the field pointed to before the call is not modified and,
\* after success, the field points to a newly allocated object that holds
\* the converted data.
C26_AsStated ==
    PointerKeyWithData =>
        /\ OldObjectsKept
        /\ last.err.k = "none" =>
              /\ PointsToNew
              /\ hist.heap[hist.field] = CellOf(unmarshalInt(0, last.vs["q"].items[1]).val)

\* C26 amended: when the key of a pointer field is present with data, a
\* new object is allocated only if the field was nil, and then no object
\* that lived before is modified; a field that was not nil keeps pointing
\* to the same object, and after success that object, or the new one,
\* holds the converted data.
C26_Amended ==
    PointerKeyWithData =>
        /\ IF last.mem.field = NoAddr
           THEN PointsToNew /\ OldObjectsKept
           ELSE hist.field = last.mem.field
        /\ last.err.k = "none" =>
              hist.heap[hist.field] = CellOf(unmarshalInt(0, last.vs["q"].items[1]).val)

\* A successful call with data under q on a field that pointed to an
\* object holding 8: the same object now holds the converted number.
C26_Witness ==
    /\ PointerKeyWithData
    /\ last.err.k = "none"
    /\ last.mem.field = 1
    /\ last.mem.heap[1] = CellOf(8)
    /\ hist.field = 1
    /\ hist.heap[1] # CellOf(8)

(***************************************************************************)
(* Defaults changed after first use: one object, a record or a map of      *)
(* slices, is marshaled again and again, inputs are unmarshaled into new   *)
(* targets of its type, and option appliers run in between.  hist keeps    *)
(* the defaults each pipeline had when the type was first used on it.      *)
(***************************************************************************)
LateObjects ==
    {[type |-> "Late", val |-> <<0, 21>>],
     [type |-> "map[string][]int",
      val |-> MapValueOf([k \in {"a", "b"} |->
                            IF k = "a" THEN SliceOf(<< >>) ELSE SliceOf(<<21>>)])]}

\* The inputs unmarshaled into a new target of type t.
LateInputs(t) ==
    IF t = "Late" THEN SharedInputs
    ELSE {[k \in {"a"} |-> ListOf(<< <<"x">> >>)],
          [k \in {"a"} |-> ListOf(<< <<"2", "1">> >>)]}

NotSeen == [seen |-> FALSE]

Seen(defaults) == [seen |-> TRUE, defaults |-> defaults]

InitLate ==
    /\ InitPipelines
    /\ tagDefaults = PlainDefaults
    /\ procs = [p \in Procs |-> IdleProc]
    /\ \E o \in LateObjects :
        /\ obj = o
        /\ hist = [applied |-> [category \in TagCategories |-> "unset"],
                   usedM |-> NotSeen, usedU |-> NotSeen]

\* The end of QSMarshaler.MarshalValues: the defaults of a first use are
\* kept.
marshalledNoting(r, m) ==
    /\ cache' = r.st.cache
    /\ calls' = r.st.calls
    /\ last' = [op |-> "MarshalValues", type |-> obj.type, res |-> m,
                defaults |-> tagDefaults, vs |-> << >>]
    /\ hist' = IF hist.usedM.seen THEN hist
               ELSE [hist EXCEPT !.usedM = Seen(tagDefaults)]
    /\ UNCHANGED <<reg, nreg, tagDefaults, procs, obj>>

marshalNotingWith(r) ==
    IF r.res.kind = "err" THEN marshalledNoting(r, Values(<< >>, r.res.desc))
    ELSE marshalledNoting(r, MarshalValues(r.res.desc, obj.val))

\* QSMarshaler.MarshalValues(obj)
QSMarshalerMarshalValuesLate == marshalNotingWith(cacher("VM", obj.type, State))

\* The end of QSUnmarshaler.UnmarshalValues on a new target: the defaults
\* of a first use are kept.
unmarshalledNoting(vs, r, u) ==
    /\ cache' = r.st.cache
    /\ calls' = r.st.calls
    /\ last' = [op |-> "UnmarshalValues", type |-> obj.type,
                res |-> [val |-> u.val, err |-> u.err],
                defaults |-> tagDefaults, vs |-> vs]
    /\ hist' = IF hist.usedU.seen THEN hist
               ELSE [hist EXCEPT !.usedU = Seen(tagDefaults)]
    /\ UNCHANGED <<reg, nreg, tagDefaults, procs, obj>>

unmarshalNotingWith(vs, order, r) ==
    IF r.res.kind = "err"
    THEN unmarshalledNoting(vs, r, Ran(Zero(obj.type), OtherError("converter"), << >>))
    ELSE IF Kind(obj.type) = "Map"
    THEN unmarshalledNoting(vs, r, mapUnmarshaler(r.res.desc, Zero(obj.type), vs, order))
    ELSE unmarshalledNoting(vs, r, UnmarshalValues(r.res.desc, Zero(obj.type), vs))

\* QSUnmarshaler.UnmarshalValues(&target, vs) on a new target of the type
\* of obj.
QSUnmarshalerUnmarshalValuesLate(vs, order) ==
    unmarshalNotingWith(vs, order, cacher("VU", obj.type, State))

NextLate ==
    \/ QSMarshalerMarshalValuesLate
    \/ \E vs \in LateInputs(obj.type) : \E order \in RangeOrders(vs) :
          QSUnmarshalerUnmarshalValuesLate(vs, order)
    \/ WithMarshalPresence("OmitEmpty")
    \/ WithUnmarshalPresence("Req")
    \/ WithUnmarshalSliceUnexpectedValue("Skip")

SpecLate == InitLate /\ [][NextLate]_vars

\* The keys a MarshalValues of the object of type t gives under the
\* defaults d: the empty field n, or the empty element a, is left out
\* under omitempty.
KeysUnder(t, d) ==
    IF t = "Late"
    THEN (IF d.M.Presence = "OmitEmpty" THEN {"m"} ELSE {"n", "m"})
    ELSE (IF d.M.Presence = "OmitEmpty" THEN {"b"} ELSE {"a", "b"})

\* Whether an UnmarshalValues of the input vs into a new target of type t
\* succeeds under the defaults d: a Late lacks a required key, a map of
\* slices has a string that is no number.
SucceedsUnder(t, vs, d) ==
    IF t = "Late" THEN d.U.Presence # "Req"
    ELSE vs["a"].items[1] # <<"x">> \/ d.U.SliceUnexpectedValue = "Skip"

\* The last call treated its value as the defaults d tell.
TreatedUnder(d) ==
    IF last.op = "MarshalValues"
    THEN last.res.err.k = "none" /\ DOMAIN last.res.vs = KeysUnder(last.type, d)
    ELSE (last.res.err.k = "none") <=> SucceedsUnder(last.type, last.vs, d)

\* The defaults the pipeline of the last call had when the type was
\* first used on it.
DefaultsAtFirstUse ==
    IF last.op = "MarshalValues" THEN hist.usedM.defaults ELSE hist.usedU.defaults

LateCall == last.op \in {"MarshalValues", "UnmarshalValues"}

MaxDepth == 6

\* The record types resolved from outside, and all types on the way.
EntryTypes == {"Node", "Ring", "Knot", "Outer"}

StackTypes ==
    EntryTypes \cup {"*Node", "*Ring", "*Knot", "*Mid", "Mid", "Inner"}

Frame(t) == [t |-> t, pc |-> 0, waits |-> FALSE]

InitCycle ==
    /\ InitPipelines
    /\ tagDefaults = PlainDefaults
    /\ procs = [p \in Procs |-> IdleProc]
    /\ obj = NoObject
    /\ hist = [stack |-> << >>,
               st |-> [cache |-> [c \in {"VU", "VM"} |-> [t \in StackTypes |-> NoEntry]]],
               c |-> "VU", ret |-> "none", out |-> "idle"]

Top == hist.stack[Len(hist.stack)]

\* The stack with its top frame replaced by f.
WithTop(f) == [hist.stack EXCEPT ![Len(hist.stack)] = f]

\* What the frames leave alone.
Framed == UNCHANGED <<cache, calls, reg, nreg, tagDefaults, procs, obj, last>>

\* The kind of what the entry-level factory of the direction has for t.
EntryKind(t) == cacher(IF hist.c = "VU" THEN "U" ELSE "M", t, State).res.kind

\* CheckUnmarshalType or CheckMarshalType of a record type: the first
\* call of the values factory behind its cache.
Begin(c, t) ==
    /\ hist.out \notin {"running", "exhausted"}
    /\ hist' = [hist EXCEPT !.stack = <<Frame(t)>>, !.c = c, !.ret = "none",
                            !.out = "running"]
    /\ last' = [op |-> IF c = "VU" THEN "CheckUnmarshalType" ELSE "CheckMarshalType",
                t |-> t]
    /\ UNCHANGED <<cache, calls, reg, nreg, tagDefaults, procs, obj>>

\* return: the top frame hands kind to its caller, or to the outside.
Returned(h, kind) ==
    [h EXCEPT !.stack = SubSeq(@, 1, Len(@) - 1),
              !.ret = kind,
              !.out = IF Len(h.stack) = 1 THEN kind ELSE @]

\* A call of opts.ValuesUnmarshalerFactory or opts.ValuesMarshalerFactory
\* for t: a new frame, if the stack has room.
Called(t) ==
    IF Len(hist.stack) >= MaxDepth
    THEN hist' = [hist EXCEPT !.out = "exhausted"]
    ELSE hist' = [hist EXCEPT
                    !.stack = Append(WithTop([Top EXCEPT !.waits = TRUE]), Frame(t)),
                    !.ret = "none"]

\* cache.Store of the outcome of the top frame, then return.
StoredAndReturned(kind) ==
    hist' = Returned(
              [hist EXCEPT !.st = Store(hist.c, Top.t,
                                        IF kind = "conv"
                                        THEN Conv([Type |-> Top.t], <<hist.c, Top.t>>)
                                        ELSE Err([Type |-> Top.t], <<hist.c, Top.t>>),
                                        @)],
              kind)

Running == hist.out = "running" /\ hist.stack # << >>

\* cacher: the Load finds an item.
Hit ==
    /\ Running
    /\ Top.pc = 0 /\ ~Top.waits
    /\ Load(hist.c, Top.t, hist.st).kind # "none"
    /\ hist' = Returned(hist, Load(hist.c, Top.t, hist.st).kind)
    /\ Framed

\* cacher: the Load finds nothing and the wrapped factory begins, with
\* the loop over the fields for a record, with the call for the element
\* for a pointer.
Miss ==
    /\ Running
    /\ Top.pc = 0 /\ ~Top.waits
    /\ Load(hist.c, Top.t, hist.st).kind = "none"
    /\ IF Kind(Top.t) = "Ptr" THEN Called(Elem(Top.t))
       ELSE hist' = [hist EXCEPT !.stack = WithTop([Top EXCEPT !.pc = 1])]
    /\ Framed

\* newFieldUnmarshaler or newFieldMarshaler for the field at hand: the
\* values factory is called for an anonymous field, the entry factory for
\* any other.
FieldAtHand ==
    /\ Running
    /\ Top.pc >= 1 /\ Top.pc <= Len(StructFields(Top.t)) /\ ~Top.waits
    /\ IF StructFields(Top.t)[Top.pc].Anonymous
       THEN Called(StructFields(Top.t)[Top.pc].Type)
       ELSE IF EntryKind(StructFields(Top.t)[Top.pc].Type) = "conv"
       THEN hist' = [hist EXCEPT !.stack = WithTop([Top EXCEPT !.pc = @ + 1])]
       ELSE StoredAndReturned("err")
    /\ Framed

\* The call a frame made has returned: a pointer converter is built
\* around the element's, or its error passed on; a record goes on with
\* the next field, or tries the entry factory for the field.
Resumed ==
    /\ Running
    /\ Top.waits /\ hist.ret # "none"
    /\ IF Kind(Top.t) = "Ptr" THEN StoredAndReturned(hist.ret)
       ELSE IF hist.ret = "conv"
       THEN hist' = [hist EXCEPT
                       !.stack = WithTop([Top EXCEPT !.pc = @ + 1, !.waits = FALSE]),
                       !.ret = "none"]
       ELSE IF EntryKind(StructFields(Top.t)[Top.pc].Type) = "conv"
       THEN hist' = [hist EXCEPT
                       !.stack = WithTop([Top EXCEPT !.pc = @ + 1, !.waits = FALSE]),
                       !.ret = "none"]
       ELSE StoredAndReturned("err")
    /\ Framed

\* The loop over the fields is over: the record converter is returned.
FieldsDone ==
    /\ Running
    /\ Kind(Top.t) = "Struct"
    /\ Top.pc > Len(StructFields(Top.t)) /\ ~Top.waits
    /\ StoredAndReturned("conv")
    /\ Framed

NextCycle ==
    \/ \E c \in {"VU", "VM"}, t \in EntryTypes : Begin(c, t)
    \/ Hit
    \/ Miss
    \/ FieldAtHand
    \/ Resumed
    \/ FieldsDone

SpecCycle == InitCycle /\ [][NextCycle]_vars

OuterResolved == last.op # "none" /\ last.t = "Outer" /\ hist.out = "conv"

(***************************************************************************)
(* What a failed call leaves.                                              *)
(***************************************************************************)
\* The last call failed at a direct field of the record it was given: the
\* key of a required field was missing, or the entry converter failed.
FailedAtDirect ==
    /\ Unmarshalled
    /\ last.err.k # "none"
    /\ last.log # << >>
    /\ last.log[Len(last.log)].Type = last.type
    /\ last.log[Len(last.log)].ev \in {"fail", "req"}

\* The index of the field the last call failed at.
FailingField == last.log[Len(last.log)].Field

\* What the loop over p.Fields makes of the field Direct[k] of the record
\* as it was before the call: nothing for an absent key under nil, the
\* value its entry converter makes of the list under its key otherwise.
ConvertedAlone(k) ==
    IF Direct[k].Tag.Name \notin DOMAIN last.vs
       /\ absentKey(Direct[k].Tag.UnmarshalOpts.Presence) = "continue"
    THEN last.before[Direct[k].FieldIndex]
    ELSE Unmarshal(Direct[k].Conv, last.before[Direct[k].FieldIndex],
                   Get(last.vs, Direct[k].Tag.Name), Direct[k].Tag).val

\* C29: after a call that failed at a direct field, every direct field
\* declared before it holds what its converter made of the input, every
\* direct field declared after it and every embedded record is as it was
\* before the call.
C29_FrameOnFailure ==
    FailedAtDirect =>
        /\ \A k \in 1..Len(Direct) :
             /\ Direct[k].FieldIndex < FailingField =>
                   last.after[Direct[k].FieldIndex] = ConvertedAlone(k)
             /\ Direct[k].FieldIndex > FailingField =>
                   last.after[Direct[k].FieldIndex] = last.before[Direct[k].FieldIndex]
        /\ \A j \in 1..Len(TopConv.EmbeddedFields) :
             last.after[TopConv.EmbeddedFields[j].FieldIndex]
                = last.before[TopConv.EmbeddedFields[j].FieldIndex]

\* A call on a Two failed at B after A was given a new number.
C29_Witness ==
    /\ FailedAtDirect
    /\ last.type = "Two"
    /\ FailingField = 2
    /\ "a" \in DOMAIN last.vs
    /\ last.after[1] # last.before[1]

\* A call on an Outer failed at A and left the embedded record an earlier
\* call had filled.
FailedBeforeEmbedded ==
    /\ FailedAtDirect
    /\ last.type = "Outer"
    /\ ~last.before[2].nil
    /\ last.after[2] = last.before[2]

(***************************************************************************)
(* Marshaling where converters return empty lists: a record with a nil     *)
(* pointer or an empty slice under keepempty, a map with empty slices, a   *)
(* record that embeds such a map.                                          *)
(***************************************************************************)
EmptyTypes == {"KeepRec", "map[string][]int", "Bag"}

InitEmpty ==
    /\ InitPipelines
    /\ \E presence \in {"Unspecified", "OmitEmpty"} :
            tagDefaults = MarshalDefaults(presence)
    /\ procs = [p \in Procs |-> IdleProc]
    /\ hist = [early |-> << >>]
    /\ \E t \in EmptyTypes : \E v \in ValuesOf(t) : obj = [type |-> t, val |-> v]

SpecEmpty == InitEmpty /\ [][NextMar]_vars

\* The last MarshalValues succeeded.
MarshalledWell == Marshalled /\ last.err.k = "none"

\* The keys of the returned url.Values that map to an empty list.
KeysOfNothing == {k \in DOMAIN last.vs : Len(last.vs[k]) = 0}

\* The map the last call marshaled, alone or embedded in a Bag.
MapMarshaled ==
    IF Kind(last.type) = "Map" THEN last.val
    ELSE IF last.type = "Bag" THEN last.val[2]
    ELSE NilMapValue

\* The keys of that map whose element its converter makes nothing of.
KeysOfEmptyElements ==
    IF MapMarshaled.nil THEN {}
    ELSE {k \in DOMAIN MapMarshaled.m :
            Len(Marshal(cache["M"]["[]int"].desc, MapMarshaled.m[k]).a) = 0}

\* C30 as stated: every key of the url.Values a successful MarshalValues
\* returns maps to a list that is not empty, for records, maps and records
\* that embed maps.
C30_AsStated == MarshalledWell => KeysOfNothing = {}

\* C30 amended: a key of the url.Values a successful MarshalValues returns
\* maps to an empty list exactly if it is the key of a map element, of
\* the map marshaled or of a map the record embeds, that the element
\* converter makes nothing of and that omitempty has not left out; every
\* key of a direct field maps to a list that is not empty.
C30_Amended ==
    MarshalledWell =>
        KeysOfNothing = IF tagDefaults.M.Presence = "OmitEmpty" THEN {}
                        ELSE KeysOfEmptyElements

\* A KeepRec with a nil pointer and an empty slice under keepempty was
\* marshaled: the keys p and s are not in the result.
C30_Witness ==
    /\ MarshalledWell
    /\ last.type = "KeepRec"
    /\ last.val[2].nil
    /\ last.val[3] = SliceOf(<< >>)
    /\ DOMAIN last.vs = {"i"}

\* A Bag whose embedded map has an empty slice under a was marshaled: the
\* key a maps to an empty list.
EmbeddedNothing ==
    /\ MarshalledWell
    /\ last.type = "Bag"
    /\ "a" \in KeysOfNothing

====
